---- MODULE Spec2Model ----
(***************************************************************************)
(* A model of the rapido core node (src/core/src/lib.rs), its store view   *)
(* and staging caches (src/core/src/store.rs), the chain-state schema      *)
(* (src/core/src/schema.rs) and the account module with its authenticator  *)
(* (src/modules/account/src/lib.rs).                                       *)
(*                                                                         *)
(* A storage digest hash(StoreKey{prefix, key}) is modelled by the pair    *)
(* <<prefix, key>> (the hash is taken to be collision free), a hash of the *)
(* state aggregator by the aggregated content itself.                      *)
(***************************************************************************)
EXTENDS Integers, Sequences, FiniteSets, TLC

\* ------------------------------------------------------------------ bounds
\* Largest nonce a sender may reach in the view a transaction runs against.
MaxNonce == 2
\* Largest block height.
MaxHeight == 2
\* The number of writes to one key that are remembered.
MaxWrites == 2
\* Largest length of a byte string (a store name, a key, a transaction field).
MaxFieldLen == 2
\* Largest number of modules registered with one AppBuilder.
MaxMods == 3
\* Largest length of a query path.
MaxPathLen == 4

\* --------------------------------------------------------------- constants
ACCOUNT_APP_NAME == "rapido.account"
ACCOUNT_STORE_NAME == "rapido.account.store"
RESERVED_APP_NAME == "rapido"
\* The second registered module and its store (an AppModule implementation
\* whose handler runs the store operations its message lists).
APP1_NAME == "app1"
APP1_STORE_NAME == "app1.store"

\* Key pairs: a secret key is named by its owner, PkOf gives the public key.
\* pk_fake is the key [1u8; 32] that gen_tx puts into its Create messages.
SecretKeys == {"sk_bob", "sk_carol"}
PkOf(sk) == IF sk = "sk_bob" THEN "pk_bob" ELSE "pk_carol"
PubKeys == {"pk_bob", "pk_carol", "pk_fake"}

\* generate_account_id: base58(hash(pubkey)), a function of the public key.
generate_account_id(pk) ==
    IF pk = "pk_bob" THEN "bob" ELSE IF pk = "pk_carol" THEN "carol" ELSE "fake"
AccountIds == {"bob", "carol", "fake"}

\* Option::None, a missing map entry, an unsigned transaction.
None == [type |-> "None"]
Absent == [type |-> "Absent"]
NoEntry == [t |-> "NoEntry"]
NoSig == "nosig"

\* ------------------------------------------------------------ store keys
\* StoreKey::create(prefix, key).hash()
StoreKeyHash(prefix, key) == <<prefix, key>>

App1Keys == {"k1"}
App1Values == {"v1", "v2"}

\* The storage digests of the keys the two stores are used with.
AllKeys ==
    {StoreKeyHash(ACCOUNT_STORE_NAME, a) : a \in AccountIds}
        \cup {StoreKeyHash(APP1_STORE_NAME, k) : k \in App1Keys}

\* ------------------------------------------------------------ store values
\* Account, as the bytes impl_store_values! writes (borsh of the four fields).
AccountBytes(id, nonce, pubkey, ta) ==
    [type |-> "Account", id |-> id, nonce |-> nonce, pubkey |-> pubkey,
     trustanchor |-> ta]

\* Account::create
AccountCreate(pk, is_ta) == AccountBytes(generate_account_id(pk), 0, pk, is_ta)

\* Account::update_pubkey
AccountUpdatePubkey(acct, pk) == [acct EXCEPT !.pubkey = pk]

\* Account::increment_nonce
AccountIncrementNonce(acct) == [acct EXCEPT !.nonce = acct.nonce + 1]

\* The value type of the second module's store.
App1Bytes(v) == [type |-> "App1", value |-> v]

\* BinaryValue::from_bytes for a store whose value type is `type`.
FromBytes(type, bytes) == IF bytes.type = type THEN bytes ELSE None

\* --------------------------------------------------------------- the view
\* ViewChange
Add(v) == [t |-> "Add", v |-> v]
Remove == [t |-> "Remove"]

\* Cache::default()
EmptyCache == [k \in AllKeys |-> NoEntry]

\* The proof map rapido.core.map of a fresh database.
EmptyStore == [k \in AllKeys |-> Absent]

\* StoreView::wrap
Wrap(snap, cache) == [access |-> snap, cache |-> cache]

\* StoreView::wrap_snapshot
WrapSnapshot(snap) == [access |-> snap, cache |-> EmptyCache]

\* StoreView::exists
ViewExists(view, key) == view.cache[key] # NoEntry

\* ViewChange::get and StoreView::get
ViewGet(view, key) ==
    IF view.cache[key] # NoEntry /\ view.cache[key].t = "Add"
    THEN view.cache[key].v
    ELSE None

\* StoreView::get_from_store
ViewGetFromStore(view, key) ==
    IF view.access[key] # Absent THEN view.access[key] ELSE None

\* A StoreView::put that keeps the entry the cache already holds for the key.
ViewPutKeepsEntry(view, key, value) ==
    IF view.cache[key] # NoEntry THEN view ELSE [view EXCEPT !.cache[key] = Add(value)]

\* StoreView::put
ViewPut(view, key, value) == [view EXCEPT !.cache[key] = Add(value)]

\* StoreView::remove
ViewRemove(view, key) == [view EXCEPT !.cache[key] = Remove]

\* Store::put
StorePut(name, key, v, view) == ViewPut(view, StoreKeyHash(name, key), v)

\* Store::remove
StoreRemove(name, key, view) == ViewRemove(view, StoreKeyHash(name, key))

\* Store::get: the cache first, then the latest snapshot.
StoreGet(name, type, key, view) ==
    LET hash == StoreKeyHash(name, key) IN
    IF ViewGet(view, hash) # None
    THEN FromBytes(type, ViewGet(view, hash))
    ELSE IF ViewGetFromStore(view, hash) # None
         THEN FromBytes(type, ViewGetFromStore(view, hash))
         ELSE None

\* Store::query: the latest committed data only.
StoreQuery(name, type, key, view) ==
    LET hash == StoreKeyHash(name, key) IN
    IF ViewGetFromStore(view, hash) # None
    THEN FromBytes(type, ViewGetFromStore(view, hash))
    ELSE None

\* Store::contains_key
StoreContainsKey(name, key, view) == ViewExists(view, StoreKeyHash(name, key))

\* The keys a cache holds an entry for.
CacheKeys(cache) == {k \in AllKeys : cache[k] # NoEntry}

\* The iteration orders of a hash map over the key set S.
Orders(S) ==
    {o \in [1..Cardinality(S) -> S] : \A i, j \in 1..Cardinality(S) : o[i] = o[j] => i = j}

\* A loop step of StoreView::commit that skips the Remove entries.
ApplyChangeSkipsRemove(store, key, cv) ==
    IF cv.t = "Add" THEN [store EXCEPT ![key] = cv.v] ELSE store

\* One step of the loop of StoreView::commit.
ApplyChange(store, key, cv) ==
    IF cv.t = "Add" THEN [store EXCEPT ![key] = cv.v] ELSE [store EXCEPT ![key] = Absent]

\* A StoreView::commit that leaves its loop after the first entry.
StoreViewCommitFirstEntry(cache, store, order) ==
    IF order = <<>>
    THEN store
    ELSE ApplyChange(store, Head(order), cache[Head(order)])

\* StoreView::commit: apply every cached change to the fork's map, in the
\* order `order` the hash map yields its entries.
RECURSIVE StoreViewCommit(_, _, _)
StoreViewCommit(cache, store, order) ==
    IF order = <<>>
    THEN store
    ELSE StoreViewCommit(cache, ApplyChange(store, Head(order), cache[Head(order)]),
                         Tail(order))

\* ------------------------------------------------------------ transactions
\* The messages of the account module (Msgs) and of the second module: a
\* list of store operations followed by the handler's result.
Create(pk) == [m |-> "Create", pk |-> pk]
ChangePubKey(pk) == [m |-> "ChangePubKey", pk |-> pk]
Put(k, v) == [op |-> "put", k |-> k, v |-> v]
Rm(k) == [op |-> "remove", k |-> k, v |-> "v1"]
Require(k) == [op |-> "require", k |-> k, v |-> "v1"]
Emit(event_type) == [op |-> "emit", k |-> event_type, v |-> "v1"]
Script(ops, ok) == [m |-> "Script", ops |-> ops, ok |-> ok]

\* SignedTransaction; `signature` names the secret key that signed the
\* transaction's digest, or NoSig for the empty signature.
SignedTransaction(sender, app, msg, nonce, signature) ==
    [sender |-> sender, app |-> app, msg |-> msg, nonce |-> nonce,
     signature |-> signature]

\* Bytes that SignedTransaction::decode rejects.
Garbage == [garbage |-> TRUE]

\* verify_tx_signature
verify_tx_signature(tx, public_key) ==
    tx.signature # NoSig /\ PkOf(tx.signature) = public_key

\* ------------------------------------------------------------ results
Ok(v) == [ok |-> TRUE, v |-> v]
Err(msg) == [ok |-> FALSE, v |-> msg]

\* ---------------------------------------------------------- authenticators
\* DefaultAuthenticator::validate
DefaultValidate(tx, view) == Ok(view)

\* Authenticator::increment_nonce (the trait's default body)
DefaultIncrementNonce(tx, view) == Ok(view)

\* AccountAuthenticator::validate
AccountValidate(tx, view) ==
    LET acct == StoreGet(ACCOUNT_STORE_NAME, "Account", tx.sender, view) IN
    IF acct = None THEN Err("user not found")
    ELSE IF ~verify_tx_signature(tx, acct.pubkey) THEN Err("bad signature")
    ELSE IF acct.nonce # tx.nonce THEN Err("nonce don't match")
    ELSE Ok(view)

\* AccountAuthenticator::increment_nonce
AccountIncrementNonceTx(tx, view) ==
    LET acct == StoreGet(ACCOUNT_STORE_NAME, "Account", tx.sender, view) IN
    IF acct = None THEN Err("user not found")
    ELSE Ok(StorePut(ACCOUNT_STORE_NAME, tx.sender, AccountIncrementNonce(acct), view))

\* self.authenticator.validate
validate(auth, tx, view) ==
    IF auth = "account" THEN AccountValidate(tx, view) ELSE DefaultValidate(tx, view)

\* An increment_nonce in which every authenticator advances the account's
\* nonce, the default one included.
increment_nonce_of_account(auth, tx, view) == AccountIncrementNonceTx(tx, view)

\* self.authenticator.increment_nonce
increment_nonce(auth, tx, view) ==
    IF auth = "account" THEN AccountIncrementNonceTx(tx, view)
    ELSE DefaultIncrementNonce(tx, view)

\* ---------------------------------------------------------------- modules
\* The result of a handler: its Result and the view as the handler left it
\* (handlers write through &mut StoreView).
Handled(ok, view) == [ok |-> ok, view |-> view]

\* AccountModule::initialize, for the genesis public keys `genesis`.
RECURSIVE AccountInitialize(_, _)
AccountInitialize(genesis, view) ==
    IF genesis = <<>>
    THEN Handled(TRUE, view)
    ELSE LET account == AccountCreate(Head(genesis), TRUE) IN
         AccountInitialize(Tail(genesis),
                           StorePut(ACCOUNT_STORE_NAME, account.id, account, view))

\* AccountModule::handle_tx
AccountHandleTx(tx, view) ==
    LET caller_acct == StoreGet(ACCOUNT_STORE_NAME, "Account", tx.sender, view) IN
    IF tx.msg.m = "Create"
    THEN IF caller_acct = None THEN Handled(FALSE, view)
         ELSE IF ~caller_acct.trustanchor THEN Handled(FALSE, view)
         ELSE LET new_account == AccountCreate(tx.msg.pk, FALSE) IN
              Handled(TRUE, StorePut(ACCOUNT_STORE_NAME, new_account.id, new_account, view))
    ELSE IF tx.msg.m = "ChangePubKey"
    THEN IF caller_acct = None THEN Handled(FALSE, view)
         ELSE LET updated == AccountUpdatePubkey(caller_acct, tx.msg.pk) IN
              Handled(TRUE, StorePut(ACCOUNT_STORE_NAME, updated.id, updated, view))
    ELSE Handled(FALSE, view)

\* AccountModule::handle_query
AccountHandleQuery(path, key, view) ==
    IF key = "" THEN Err("bad account key")
    ELSE IF path = <<"/">>
    THEN LET req_acct == StoreGet(ACCOUNT_STORE_NAME, "Account", key, view) IN
         IF req_acct = None THEN Err("account not found") ELSE Ok(req_acct)
    ELSE Err("not found")

\* AppModule::initialize of the second module: the trait's default body.
App1Initialize(view) == Handled(TRUE, view)

\* AppModule::handle_tx of the second module: the handler runs the
\* operations of its message in order (store writes, and events dispatched
\* on the context), fails at a `require` of a key that Store::get does not
\* return, and ends with the result the message names.
RECURSIVE App1Run(_, _, _)
App1Run(ops, ok, view) ==
    IF ops = <<>>
    THEN Handled(ok, view)
    ELSE LET o == Head(ops) IN
         IF o.op = "put"
         THEN App1Run(Tail(ops), ok, StorePut(APP1_STORE_NAME, o.k, App1Bytes(o.v), view))
         ELSE IF o.op = "remove"
         THEN App1Run(Tail(ops), ok, StoreRemove(APP1_STORE_NAME, o.k, view))
         ELSE IF o.op = "emit"
         THEN App1Run(Tail(ops), ok, view)
         ELSE IF StoreGet(APP1_STORE_NAME, "App1", o.k, view) = None
         THEN Handled(FALSE, view)
         ELSE App1Run(Tail(ops), ok, view)

App1HandleTx(tx, view) ==
    IF tx.msg.m = "Script" THEN App1Run(tx.msg.ops, tx.msg.ok, view)
    ELSE Handled(FALSE, view)

\* AppModule::handle_query of the second module (as ModelApp::handle_query).
App1HandleQuery(path, key, view) ==
    IF path = <<"/">>
    THEN LET p == StoreQuery(APP1_STORE_NAME, "App1", key, view) IN
         IF p = None THEN Err("Model not found for user") ELSE Ok(p)
    ELSE Err("invalid query")

\* ---------------------------------------------------------------- context
\* An abci Event: its type and its attributes, a list of key/value pairs.
Event(type, attributes) == [type |-> type, attributes |-> attributes]

\* Context::new
ContextNew(tx) ==
    [sender |-> tx.sender, msg |-> tx.msg, events |-> <<>>, appname |-> tx.app]

\* Context::dispatch_event
dispatch_event(ctx, event_type, pairs) ==
    [ctx EXCEPT !.events = Append(@, Event(ctx.appname \o "." \o event_type, pairs))]

\* Context::get_events
get_events(ctx) == ctx.events

\* The context as handle_tx of the second module leaves it: the handler
\* dispatches an event at each `emit`, with the sender as its attribute (as
\* ModelApp::handle_tx does), up to the operation it fails at.
RECURSIVE App1Context(_, _, _)
App1Context(ops, view, ctx) ==
    IF ops = <<>>
    THEN ctx
    ELSE LET o == Head(ops) IN
         IF o.op = "put"
         THEN App1Context(Tail(ops), StorePut(APP1_STORE_NAME, o.k, App1Bytes(o.v), view), ctx)
         ELSE IF o.op = "remove"
         THEN App1Context(Tail(ops), StoreRemove(APP1_STORE_NAME, o.k, view), ctx)
         ELSE IF o.op = "emit"
         THEN App1Context(Tail(ops), view,
                          dispatch_event(ctx, o.k, <<<<"sender", ctx.sender>>>>))
         ELSE IF StoreGet(APP1_STORE_NAME, "App1", o.k, view) = None
         THEN ctx
         ELSE App1Context(Tail(ops), view, ctx)

\* The context after app.handle_tx(&ctx, &mut cache); the account module
\* dispatches no event.
handle_tx_context(app, tx, view) ==
    IF app = ACCOUNT_APP_NAME THEN ContextNew(tx)
    ELSE IF tx.msg.m = "Script" THEN App1Context(tx.msg.ops, view, ContextNew(tx))
    ELSE ContextNew(tx)

\* Node.appmodules: the names the service map of Node::new holds.
appmodules == {ACCOUNT_APP_NAME, APP1_NAME}

\* The genesis accounts handed to AccountModule::new.
Genesis == <<"pk_bob">>

\* app.initialize / app.handle_tx / app.handle_query, dispatched by name.
initialize(app, view) ==
    IF app = ACCOUNT_APP_NAME THEN AccountInitialize(Genesis, view) ELSE App1Initialize(view)

handle_tx(app, tx, view) ==
    IF app = ACCOUNT_APP_NAME THEN AccountHandleTx(tx, view) ELSE App1HandleTx(tx, view)

handle_query(app, path, key, view) ==
    IF app = ACCOUNT_APP_NAME THEN AccountHandleQuery(path, key, view)
    ELSE App1HandleQuery(path, key, view)

\* ------------------------------------------------------------------- node
\* Option<store::Cache>
SomeCache(c) == [some |-> TRUE, cache |-> c]
NoneCache == [some |-> FALSE, cache |-> EmptyCache]

\* ChainState::default()
DefaultChainState == [height |-> 0, apphash |-> <<>>]

\* aggregator.object_hash(): the hash of the state aggregator `agg`, which
\* maps rapido.core.map to the object hash of that map once a patch has
\* aggregated it.
ObjectHash(agg) == <<agg.set, agg.store>>

\* The database of a node that AppBuilder::new and Node::new have built
\* (a fresh TemporaryDB) and the node's two caches.
NewNode ==
    [store |-> EmptyStore,
     agg |-> [set |-> FALSE, store |-> EmptyStore],
     chain |-> [some |-> FALSE, state |-> DefaultChainState],
     check_cache |-> SomeCache(EmptyCache),
     deliver_cache |-> SomeCache(EmptyCache),
     panicked |-> FALSE]

\* A call that panics (Option::unwrap on None, panic!, expect).
Panic(n) == [n EXCEPT !.panicked = TRUE]

\* RapidoSchema::get_chain_state().unwrap_or_default()
get_chain_state(n) == IF n.chain.some THEN n.chain.state ELSE DefaultChainState

\* What run_tx returns together with the node it leaves.
TxResult(n, ok, log) == [node |-> n, ok |-> ok, log |-> log]

\* A check_tx branch that wraps the execution cache into its view.
run_check_on_deliver_cache(n, auth, tx) ==
    IF ~n.check_cache.some THEN TxResult(Panic(n), FALSE, "panic")
    ELSE
    LET cache == Wrap(n.store, n.deliver_cache.cache)
        resp == validate(auth, tx, cache)
        inc == increment_nonce(auth, tx, cache)
    IN  IF ~inc.ok
        THEN TxResult([n EXCEPT !.check_cache = NoneCache], FALSE,
                      "check tx : inc nonce error")
        ELSE TxResult([n EXCEPT !.check_cache = SomeCache(inc.v.cache)],
                      resp.ok, IF resp.ok THEN "" ELSE resp.v)

\* A check_tx branch that advances the nonce only when validate returned ok.
run_check_nonce_on_valid(n, auth, tx) ==
    IF ~n.check_cache.some THEN TxResult(Panic(n), FALSE, "panic")
    ELSE
    LET cache == Wrap(n.store, n.check_cache.cache)
        taken == [n EXCEPT !.check_cache = NoneCache]
        resp == validate(auth, tx, cache)
        inc == IF resp.ok THEN increment_nonce(auth, tx, cache) ELSE Ok(cache)
    IN  IF ~inc.ok
        THEN TxResult(taken, FALSE, "check tx : inc nonce error")
        ELSE TxResult([n EXCEPT !.check_cache = SomeCache(inc.v.cache)],
                      resp.ok, IF resp.ok THEN "" ELSE resp.v)

\* A check_tx branch that answers ok whenever the nonce advancement
\* succeeded, whatever validate returned.
run_check_ignores_validate(n, auth, tx) ==
    IF ~n.check_cache.some THEN TxResult(Panic(n), FALSE, "panic")
    ELSE
    LET cache == Wrap(n.store, n.check_cache.cache)
        taken == [n EXCEPT !.check_cache = NoneCache]
        inc == increment_nonce(auth, tx, cache)
    IN  IF ~inc.ok
        THEN TxResult(taken, FALSE, "check tx : inc nonce error")
        ELSE TxResult([n EXCEPT !.check_cache = SomeCache(inc.v.cache)], TRUE, "")

\* The check_tx branch of Node::run_tx, after decode and module lookup.
\* A check_tx that hands the transaction to its module's handler as well.
run_check_runs_handler(n, auth, tx) ==
    IF ~n.check_cache.some THEN TxResult(Panic(n), FALSE, "panic")
    ELSE
    LET cache == Wrap(n.store, n.check_cache.cache)
        taken == [n EXCEPT !.check_cache = NoneCache]
        resp == validate(auth, tx, cache)
        inc == increment_nonce(auth, tx, handle_tx(tx.app, tx, cache).view)
    IN  IF ~inc.ok
        THEN TxResult(taken, FALSE, "check tx : inc nonce error")
        ELSE TxResult([n EXCEPT !.check_cache = SomeCache(inc.v.cache)],
                      resp.ok, IF resp.ok THEN "" ELSE resp.v)

run_check(n, auth, tx) ==
    IF ~n.check_cache.some THEN TxResult(Panic(n), FALSE, "panic")
    ELSE
    LET cache == Wrap(n.store, n.check_cache.cache)
        taken == [n EXCEPT !.check_cache = NoneCache]
        resp == validate(auth, tx, cache)
        inc == increment_nonce(auth, tx, cache)
    IN  IF ~inc.ok
        THEN TxResult(taken, FALSE, "check tx : inc nonce error")
        ELSE TxResult([n EXCEPT !.check_cache = SomeCache(inc.v.cache)],
                      resp.ok, IF resp.ok THEN "" ELSE resp.v)

\* A deliver_tx branch that advances the nonce only when the handler
\* returned ok.
run_deliver_nonce_on_success(n, auth, tx) ==
    IF ~n.deliver_cache.some THEN TxResult(Panic(n), FALSE, "panic")
    ELSE
    LET cache == Wrap(n.store, n.deliver_cache.cache)
        taken == [n EXCEPT !.deliver_cache = NoneCache]
        resp == handle_tx(tx.app, tx, cache)
        inc == IF resp.ok THEN increment_nonce(auth, tx, resp.view) ELSE Ok(resp.view)
    IN  IF ~inc.ok
        THEN TxResult(taken, FALSE, "deliver tx nonce error")
        ELSE TxResult([n EXCEPT !.deliver_cache = SomeCache(inc.v.cache)],
                      resp.ok, IF resp.ok THEN "" ELSE "handler error")

\* The deliver_tx branch of Node::run_tx, after decode and module lookup.
\* A deliver_tx whose view is wrapped around a fresh cache in place of the one
\* the earlier calls of the block left.
run_deliver_fresh_cache(n, auth, tx) ==
    IF ~n.deliver_cache.some THEN TxResult(Panic(n), FALSE, "panic")
    ELSE
    LET cache == Wrap(n.store, EmptyCache)
        taken == [n EXCEPT !.deliver_cache = NoneCache]
        resp == handle_tx(tx.app, tx, cache)
        inc == increment_nonce(auth, tx, resp.view)
    IN  IF ~inc.ok
        THEN TxResult(taken, FALSE, "deliver tx nonce error")
        ELSE TxResult([n EXCEPT !.deliver_cache = SomeCache(inc.v.cache)],
                      resp.ok, IF resp.ok THEN "" ELSE "handler error")

run_deliver(n, auth, tx) ==
    IF ~n.deliver_cache.some THEN TxResult(Panic(n), FALSE, "panic")
    ELSE
    LET cache == Wrap(n.store, n.deliver_cache.cache)
        taken == [n EXCEPT !.deliver_cache = NoneCache]
        resp == handle_tx(tx.app, tx, cache)
        inc == increment_nonce(auth, tx, resp.view)
    IN  IF ~inc.ok
        THEN TxResult(taken, FALSE, "deliver tx nonce error")
        ELSE TxResult([n EXCEPT !.deliver_cache = SomeCache(inc.v.cache)],
                      resp.ok, IF resp.ok THEN "" ELSE "handler error")

\* A run_tx that does not look the module name up.
run_tx_without_lookup(n, auth, is_check, raw_tx) ==
    IF raw_tx = Garbage THEN TxResult(n, FALSE, "problem decoding the signed tx")
    ELSE IF is_check THEN run_check(n, auth, raw_tx)
    ELSE run_deliver(n, auth, raw_tx)

\* Node::run_tx
run_tx(n, auth, is_check, raw_tx) ==
    IF raw_tx = Garbage THEN TxResult(n, FALSE, "problem decoding the signed tx")
    ELSE IF raw_tx.app \notin appmodules
    THEN TxResult(n, FALSE, "No registered AppModule found for name")
    ELSE IF is_check THEN run_check(n, auth, raw_tx)
    ELSE run_deliver(n, auth, raw_tx)

\* A deliver_tx that returns the events of the context also when run_tx
\* returned an error.
deliver_events_after_failure(n, auth, raw_tx) ==
    IF raw_tx = Garbage THEN <<>>
    ELSE IF raw_tx.app \notin appmodules \/ ~n.deliver_cache.some THEN <<>>
    ELSE get_events(handle_tx_context(raw_tx.app, raw_tx,
                                      Wrap(n.store, n.deliver_cache.cache)))

\* resp.events of Application::deliver_tx: the events run_tx returns, which
\* are those of the context when the handler returned ok and the nonce
\* advancement succeeded; an error carries none.
deliver_events(n, auth, raw_tx) ==
    IF raw_tx = Garbage THEN <<>>
    ELSE IF raw_tx.app \notin appmodules \/ ~n.deliver_cache.some THEN <<>>
    ELSE IF run_tx(n, auth, FALSE, raw_tx).ok
    THEN get_events(handle_tx_context(raw_tx.app, raw_tx,
                                      Wrap(n.store, n.deliver_cache.cache)))
    ELSE <<>>

\* An update_state that stores the height it read.
update_state_same_height(n) ==
    LET statehash == ObjectHash(n.agg)
        new_height == get_chain_state(n).height
    IN  [n EXCEPT !.chain = [some |-> TRUE,
                             state |-> [height |-> new_height, apphash |-> statehash]]]

\* Node::update_state on the fork `n` of commit: the state aggregator read
\* through a Fork is the one the last patch wrote (Fork::into_patch is what
\* updates it), and the chain state entry takes the next height.
update_state(n) ==
    LET statehash == ObjectHash(n.agg)
        new_height == get_chain_state(n).height + 1
    IN  [n EXCEPT !.chain = [some |-> TRUE,
                             state |-> [height |-> new_height, apphash |-> statehash]]]

\* fork.into_patch() and db.merge: the patch aggregates the proof map.
merge(n) == [n EXCEPT !.agg = [set |-> TRUE, store |-> n.store]]

\* A commit that leaves the admission cache as it is.
commit_keeps_check_cache(n, order) ==
    IF ~n.deliver_cache.some THEN Panic(n)
    ELSE
    LET fork == [n EXCEPT !.deliver_cache = NoneCache,
                          !.store = StoreViewCommit(n.deliver_cache.cache, n.store, order)]
        merged == merge(update_state(fork))
    IN  [merged EXCEPT !.deliver_cache = SomeCache(EmptyCache)]

\* Application::commit; `order` is the iteration order of the cache.
commit(n, order) ==
    IF ~n.deliver_cache.some THEN Panic(n)
    ELSE
    LET fork == [n EXCEPT !.deliver_cache = NoneCache,
                          !.store = StoreViewCommit(n.deliver_cache.cache, n.store, order)]
        merged == merge(update_state(fork))
    IN  [merged EXCEPT !.deliver_cache = SomeCache(EmptyCache),
                       !.check_cache = SomeCache(EmptyCache)]

\* A commit that returns the apphash the chain state held before it.
commit_data_previous(n) == get_chain_state(n).apphash

\* resp.set_data(apphash) of Application::commit on the node `n` it is
\* called on: the state hash update_state returns, read through the fork.
commit_data(n) == ObjectHash(n.agg)

\* The loop of Application::init_chain over the module map, in the order
\* `mods` the hash map yields the modules.
RECURSIVE init_modules(_, _)
init_modules(mods, view) ==
    IF mods = <<>>
    THEN Handled(TRUE, view)
    ELSE LET result == initialize(Head(mods), view) IN
         IF ~result.ok THEN result ELSE init_modules(Tail(mods), result.view)

\* An init_chain that leaves the genesis writes staged in the execution
\* cache and merges nothing.
init_chain_staged(n, mods, order) ==
    IF ~n.deliver_cache.some THEN Panic(n)
    ELSE
    LET result == init_modules(mods, Wrap(n.store, n.deliver_cache.cache)) IN
    IF ~result.ok THEN Panic(n)
    ELSE [n EXCEPT !.deliver_cache = SomeCache(result.view.cache)]

\* Application::init_chain
init_chain(n, mods, order) ==
    IF ~n.deliver_cache.some THEN Panic(n)
    ELSE
    LET result == init_modules(mods, Wrap(n.store, n.deliver_cache.cache)) IN
    IF ~result.ok THEN Panic(n)
    ELSE
    LET fork == [n EXCEPT !.store = StoreViewCommit(result.view.cache, n.store, order)]
    IN  [merge(fork) EXCEPT !.deliver_cache = SomeCache(EmptyCache)]

\* Application::info
info(n) ==
    [kind |-> "info", code |-> 0, height |-> get_chain_state(n).height,
     data |-> get_chain_state(n).apphash]

\* The index of the last "/" of a path from index i on, 0 when it has none.
RECURSIVE FindLastSlash(_, _)
FindLastSlash(path, i) ==
    IF i > Len(path) THEN 0
    ELSE IF FindLastSlash(path, i + 1) # 0 THEN FindLastSlash(path, i + 1)
    ELSE IF path[i] = "/" THEN i ELSE 0

\* The index of the first "/" of a path, 0 when it has none.
RECURSIVE FindSlash(_, _)
FindSlash(path, i) ==
    IF i > Len(path) THEN 0
    ELSE IF path[i] = "/" THEN i ELSE FindSlash(path, i + 1)

\* parse_abci_query_path; a path is a sequence of segments, "/" being one.
parse_abci_query_path(req_path) ==
    IF Len(req_path) = 0 THEN None
    ELSE IF req_path = <<"/">> THEN None
    ELSE IF FindSlash(req_path, 1) = 0
    THEN [type |-> "Some", appname |-> req_path, path |-> <<"/">>]
    ELSE IF FindSlash(req_path, 1) > 1
    THEN [type |-> "Some",
          appname |-> SubSeq(req_path, 1, FindSlash(req_path, 1) - 1),
          path |-> SubSeq(req_path, FindSlash(req_path, 1), Len(req_path))]
    ELSE None

\* A query whose view overlays the execution cache.
query_with_deliver_cache(n, req_path, key) ==
    LET parsed == parse_abci_query_path(req_path)
        cache == Wrap(n.store, n.deliver_cache.cache)
    IN  IF parsed = None
        THEN [kind |-> "query", code |-> 1, value |-> None, key |-> key]
        ELSE IF ~(\E a \in appmodules : parsed.appname = <<a>>)
        THEN [kind |-> "query", code |-> 1, value |-> None, key |-> ""]
        ELSE LET r == handle_query(parsed.appname[1], parsed.path, key, cache) IN
             IF r.ok
             THEN [kind |-> "query", code |-> 0, value |-> r.v, key |-> key]
             ELSE [kind |-> "query", code |-> 1, value |-> None, key |-> key]

\* Application::query
query(n, req_path, key) ==
    LET parsed == parse_abci_query_path(req_path)
        cache == WrapSnapshot(n.store)
    IN  IF parsed = None
        THEN [kind |-> "query", code |-> 1, value |-> None, key |-> key]
        ELSE IF ~(\E a \in appmodules : parsed.appname = <<a>>)
        THEN [kind |-> "query", code |-> 1, value |-> None, key |-> ""]
        ELSE LET r == handle_query(parsed.appname[1], parsed.path, key, cache) IN
             IF r.ok
             THEN [kind |-> "query", code |-> 0, value |-> r.v, key |-> key]
             ELSE [kind |-> "query", code |-> 1, value |-> None, key |-> key]

\* ------------------------------------------------------------------ state
VARIABLES
    node,       \* the node: database (store, agg, chain) and the two caches
    peer,       \* a second node built the same way and fed the same calls
    auth,       \* the authenticator set in the AppBuilder
    has_init,   \* TestKit.has_init: init_chain has run
    resp,       \* the response of the last call
    commits,    \* the commits so far: their number, the data the last one
                \* returned on each node, the number of cache entries it merged
                \* and whether it dropped a non-empty admission cache
    s4,         \* progress of the check_tx sequence of test_account_authenticator
    writes      \* the last writes handlers delivered to k1 (followed under SpecBlock)

vars == <<node, peer, auth, has_init, resp, commits, s4, writes>>

\* ----------------------------------------------------------------- inputs
Nonces == 0..MaxNonce

\* gen_tx of the account module's tests: a Create by `user`, signed.
gen_tx(user, secret_key, nonce) ==
    SignedTransaction(user, ACCOUNT_APP_NAME, Create("pk_fake"), nonce, secret_key)

\* The account transactions: bob's, signed by bob at every nonce or with
\* another key, and carol's.
AccountTxs ==
    {gen_tx("bob", "sk_bob", n) : n \in Nonces}
        \cup {gen_tx("bob", "sk_carol", 0), gen_tx("carol", "sk_carol", 0)}

\* The messages of the second module: a put, a put followed by an error, a
\* remove, and a put that requires the key to be readable.
App1Msgs ==
    {Script(<<Put("k1", "v1")>>, TRUE),
     Script(<<Put("k1", "v2")>>, FALSE),
     Script(<<Rm("k1")>>, TRUE),
     Script(<<Require("k1"), Put("k1", "v1")>>, TRUE)}

App1Txs ==
    {SignedTransaction("bob", APP1_NAME, m, 0, "sk_bob") : m \in App1Msgs}
    \cup
    {SignedTransaction("carol", APP1_NAME, Script(<<Put("k1", "v1")>>, TRUE), 1, NoSig)}

Txs ==
    AccountTxs \cup App1Txs
        \cup {SignedTransaction("bob", "nomod", Create("pk_fake"), 0, "sk_bob")}

RawTxs == Txs \cup {Garbage}

\* The queries: a path and the key sent as data.
Queries ==
    {<<<<APP1_NAME>>, "k1">>, <<<<ACCOUNT_APP_NAME, "/">>, "bob">>,
     <<<<"nomod", "/">>, "k1">>, <<<<>>, "k1">>}

\* The nonce the view over `cache` holds for `sender`, 0 without an account.
NonceOf(n, cache, sender) ==
    LET acct == StoreGet(ACCOUNT_STORE_NAME, "Account", sender, Wrap(n.store, cache)) IN
    IF acct = None THEN 0 ELSE acct.nonce

\* The nonces of the sequence of check_tx calls of test_account_authenticator,
\* continued as in scenario S4: 0, 1, 2, 3, then 5, then 4.
S4Nonces == <<0, 1, 2, 3, 5, 4>>

\* The transactions of that test: gen_tx for bob, with his key or another.
S4Txs == {gen_tx("bob", sk, S4Nonces[i]) : sk \in SecretKeys, i \in 1..Len(S4Nonces)}

\* The position in that sequence after check_tx(raw): the calls up to now
\* were its first s4 calls, made by bob with his signature, starting from a
\* committed nonce of 0 and an admission cache without an entry for bob.
S4Next(raw) ==
    IF raw = Garbage THEN 0
    ELSE IF ~(raw.sender = "bob" /\ raw.signature = "sk_bob" /\ raw.app = ACCOUNT_APP_NAME
              /\ auth = "account")
    THEN 0
    ELSE IF s4 \in 1..(Len(S4Nonces) - 1) /\ raw.nonce = S4Nonces[s4 + 1]
    THEN s4 + 1
    ELSE IF /\ raw.nonce = S4Nonces[1]
            /\ node.check_cache.some
            /\ node.check_cache.cache = EmptyCache
            /\ StoreGet(ACCOUNT_STORE_NAME, "Account", "bob", WrapSnapshot(node.store))
                 = AccountCreate("pk_bob", TRUE)
    THEN 1
    ELSE 0

\* ---------------------------------------------------------------- actions
Init ==
    /\ node = NewNode
    /\ peer = NewNode
    /\ auth \in {"default", "account"}
    /\ has_init = FALSE
    /\ resp = [kind |-> "new", code |-> 0]
    /\ commits = [n |-> 0, data |-> <<>>, peer_data |-> <<>>, merged |-> 0, dropped |-> FALSE]
    /\ s4 = 0
    /\ writes = [seq |-> <<>>, committed |-> FALSE]

\* TestKit::start: Application::init_chain, once, before any transaction.
InitChain ==
    /\ ~has_init
    /\ ~node.panicked
    /\ \E mods \in Orders(appmodules), pmods \in Orders(appmodules) :
         LET staged == init_modules(mods, Wrap(node.store, node.deliver_cache.cache))
             pstaged == init_modules(pmods, Wrap(peer.store, peer.deliver_cache.cache))
         IN  \E order \in Orders(CacheKeys(staged.view.cache)),
                porder \in Orders(CacheKeys(pstaged.view.cache)) :
               /\ node' = init_chain(node, mods, order)
               /\ peer' = init_chain(peer, pmods, porder)
    /\ has_init' = TRUE
    /\ resp' = [kind |-> "init_chain", code |-> 0]
    /\ s4' = 0
    /\ UNCHANGED <<auth, commits, writes>>

\* Application::check_tx, for a sender whose nonce is below `bound`.
CheckTxB(raw, bound) ==
    /\ has_init
    /\ ~node.panicked
    /\ raw # Garbage => NonceOf(node, node.check_cache.cache, raw.sender) < bound
    /\ LET r == run_tx(node, auth, TRUE, raw)
           pr == run_tx(peer, auth, TRUE, raw)
       IN  /\ node' = r.node
           /\ peer' = pr.node
           /\ resp' = [kind |-> "check_tx", code |-> IF r.ok THEN 0 ELSE 1, log |-> r.log]
    /\ s4' = S4Next(raw)
    /\ UNCHANGED <<auth, has_init, commits, writes>>

CheckTx(raw) == CheckTxB(raw, MaxNonce)

\* Application::deliver_tx
DeliverTxCall(raw) ==
    /\ has_init
    /\ ~node.panicked
    /\ raw # Garbage => NonceOf(node, node.deliver_cache.cache, raw.sender) < MaxNonce
    /\ LET r == run_tx(node, auth, FALSE, raw)
           pr == run_tx(peer, auth, FALSE, raw)
       IN  /\ node' = r.node
           /\ peer' = pr.node
           /\ resp' = [kind |-> "deliver_tx", code |-> IF r.ok THEN 0 ELSE 1, log |-> r.log,
                       events |-> deliver_events(node, auth, raw)]
    /\ s4' = 0
    /\ UNCHANGED <<auth, has_init, commits>>

DeliverTx(raw) == DeliverTxCall(raw) /\ UNCHANGED writes

\* Application::commit
CommitCall ==
    /\ has_init
    /\ ~node.panicked
    /\ get_chain_state(node).height < MaxHeight
    /\ \E order \in Orders(CacheKeys(node.deliver_cache.cache)),
          porder \in Orders(CacheKeys(peer.deliver_cache.cache)) :
         /\ node' = commit(node, order)
         /\ peer' = commit(peer, porder)
    /\ resp' = IF node'.panicked THEN [kind |-> "panic", code |-> 1]
               ELSE [kind |-> "commit", code |-> 0, data |-> commit_data(node)]
    /\ commits' = IF node'.panicked THEN commits
                  ELSE [n |-> commits.n + 1, data |-> commit_data(node),
                        peer_data |-> commit_data(peer),
                        merged |-> Cardinality(CacheKeys(node.deliver_cache.cache)),
                        dropped |-> node.check_cache.cache # EmptyCache]
    /\ s4' = 0
    /\ UNCHANGED <<auth, has_init>>

Commit == CommitCall /\ UNCHANGED writes

\* Application::query
Query(path, key) ==
    /\ ~node.panicked
    /\ resp' = query(node, path, key)
    /\ s4' = 0
    /\ UNCHANGED <<node, peer, auth, has_init, commits, writes>>

\* Application::info
Info ==
    /\ ~node.panicked
    /\ resp' = info(node)
    /\ s4' = 0
    /\ UNCHANGED <<node, peer, auth, has_init, commits, writes>>

\* Application::begin_block and Application::end_block
BeginBlock ==
    /\ has_init
    /\ ~node.panicked
    /\ resp' = [kind |-> "block", code |-> 0]
    /\ s4' = 0
    /\ UNCHANGED <<node, peer, auth, has_init, commits, writes>>

EndBlock ==
    /\ has_init
    /\ ~node.panicked
    /\ resp' = [kind |-> "block", code |-> 0]
    /\ s4' = 0
    /\ UNCHANGED <<node, peer, auth, has_init, commits, writes>>

Next ==
    \/ InitChain
    \/ \E raw \in RawTxs : CheckTx(raw)
    \/ \E raw \in RawTxs : DeliverTx(raw)
    \/ Commit
    \/ \E q \in Queries : Query(q[1], q[2])
    \/ Info
    \/ BeginBlock
    \/ EndBlock

Spec == Init /\ [][Next]_vars

\* The calls of test_account_authenticator: init_chain, then check_tx of
\* bob's transactions, with the deliveries and commits of a block between.
S4CheckTx(raw) == CheckTxB(raw, Len(S4Nonces))

NextS4 ==
    \/ InitChain
    \/ \E raw \in S4Txs : S4CheckTx(raw)
    \/ \E raw \in AccountTxs : DeliverTx(raw)
    \/ Commit

SpecS4 == Init /\ [][NextS4]_vars

\* The writes to `key` that the handler of the second module issues when it
\* runs `ops` on `view`, in the order it issues them.
RECURSIVE App1Writes(_, _, _)
App1Writes(ops, view, key) ==
    IF ops = <<>>
    THEN <<>>
    ELSE LET o == Head(ops) IN
         IF o.op = "put"
         THEN (IF o.k = key THEN <<Add(App1Bytes(o.v))>> ELSE <<>>)
                 \o App1Writes(Tail(ops),
                               StorePut(APP1_STORE_NAME, o.k, App1Bytes(o.v), view), key)
         ELSE IF o.op = "remove"
         THEN (IF o.k = key THEN <<Remove>> ELSE <<>>)
                 \o App1Writes(Tail(ops), StoreRemove(APP1_STORE_NAME, o.k, view), key)
         ELSE IF o.op = "emit"
         THEN App1Writes(Tail(ops), view, key)
         ELSE IF StoreGet(APP1_STORE_NAME, "App1", o.k, view) = None
         THEN <<>>
         ELSE App1Writes(Tail(ops), view, key)

\* The writes to k1 that deliver_tx(raw) on the node `n` hands to a handler.
WritesOf(n, raw) ==
    IF raw = Garbage THEN <<>>
    ELSE IF raw.app # APP1_NAME \/ raw.msg.m # "Script" \/ ~n.deliver_cache.some
    THEN <<>>
    ELSE App1Writes(raw.msg.ops, Wrap(n.store, n.deliver_cache.cache), "k1")

\* The last MaxWrites elements of a sequence.
LastWrites(seq) ==
    IF Len(seq) <= MaxWrites THEN seq ELSE SubSeq(seq, Len(seq) - MaxWrites + 1, Len(seq))

\* The transactions of a block: those of the second module, one of bob's
\* account transactions, one for a module that is not registered, and bytes
\* that do not decode.
BlockTxs == (Txs \ AccountTxs) \cup {gen_tx("bob", "sk_bob", 0), Garbage}

\* deliver_tx, the writes it delivers to k1 being remembered: those of the
\* block under way, after a commit those of the block it committed.
BlockDeliverTx(raw) ==
    /\ DeliverTxCall(raw)
    /\ writes' =
         IF WritesOf(node, raw) = <<>> THEN writes
         ELSE [seq |-> LastWrites((IF writes.committed THEN <<>> ELSE writes.seq)
                                     \o WritesOf(node, raw)),
               committed |-> FALSE]

BlockCommit == CommitCall /\ writes' = [writes EXCEPT !.committed = TRUE]

NextBlock ==
    \/ InitChain
    \/ \E raw \in BlockTxs \ App1Txs : CheckTx(raw)
    \/ \E raw \in BlockTxs : BlockDeliverTx(raw)
    \/ BlockCommit
    \/ Query(<<APP1_NAME>>, "k1")

SpecBlock == Init /\ [][NextBlock]_vars

\* ------------------------------------------------------- store key bytes
\* The bytes of names and keys, and the byte strings of up to n bytes.
Bytes == {1, 2}
ByteSeqs(n) == UNION {[1..m -> Bytes] : m \in 0..n}

\* A u32 in little-endian bytes, as borsh writes a length.
u32_le(n) ==
    <<n % 256, (n \div 256) % 256, (n \div 65536) % 256, (n \div 16777216) % 256>>

\* StoreKey::try_to_vec without the length fields: prefix and key appended.
StoreKeyBytesNoLengths(prefix, key) == prefix \o key

\* StoreKey::try_to_vec: borsh of the struct {prefix: String, key: Vec<u8>},
\* each field written as its length followed by its bytes. StoreKey::hash is
\* the hash of these bytes; StoreKeyHash stands for it on the names and keys
\* of the node's model.
StoreKeyBytes(prefix, key) == u32_le(Len(prefix)) \o prefix \o u32_le(Len(key)) \o key

\* Store names (not empty) and keys as byte strings.
StoreNames == ByteSeqs(MaxFieldLen) \ {<<>>}
StoreKeys == ByteSeqs(MaxFieldLen)

\* Store::put of a value under (name, key) on a fresh view: the digest the
\* cache entry gets.
KeyPut(name, key) ==
    /\ resp.kind = "new"
    /\ resp' = [kind |-> "put", name |-> name, key |-> key,
                digest |-> StoreKeyBytes(name, key)]
    /\ UNCHANGED <<node, peer, auth, has_init, commits, s4, writes>>

\* Store::get or Store::query under (name, key) on the view that holds the
\* entry of that put: a hit when the digests are equal.
KeyGet(name, key) ==
    /\ resp.kind = "put"
    /\ resp' = [kind |-> "get",
                name |-> resp.name, key |-> resp.key, digest |-> resp.digest,
                get_name |-> name, get_key |-> key,
                hit |-> StoreKeyBytes(name, key) = resp.digest]
    /\ UNCHANGED <<node, peer, auth, has_init, commits, s4, writes>>

NextKey ==
    \/ \E name \in StoreNames, key \in StoreKeys : KeyPut(name, key)
    \/ \E name \in StoreNames, key \in StoreKeys : KeyGet(name, key)

SpecKey == Init /\ [][NextKey]_vars

\* ------------------------------------------------------ transaction bytes
\* u64::to_le_bytes
RECURSIVE le_bytes(_, _)
le_bytes(n, width) ==
    IF width = 0 THEN <<>> ELSE <<n % 256>> \o le_bytes(n \div 256, width - 1)

u64_le(n) == le_bytes(n, 8)

\* SignedTransaction::hash: the bytes handed to exonum_crypto::hash, in the
\* order sender, appname, msg, nonce, appended one after the other.
HashContents(tx) == tx.sender \o tx.app \o tx.msg \o u64_le(tx.nonce)

\* exonum_crypto::sign over the hash of `contents` with the key `sk`, and
\* exonum_crypto::verify of a signature for the hash of `contents`: the hash
\* is taken to be collision free, the signature to be unforgeable.
SignContents(contents, sk) == [sk |-> sk, contents |-> contents]
VerifyContents(sig, contents, pk) == PkOf(sig.sk) = pk /\ sig.contents = contents

\* SignedTransaction::sign and verify_tx_signature on transactions whose
\* fields are byte strings.
SignTx(tx, sk) == [tx EXCEPT !.signature = SignContents(HashContents(tx), sk)]
VerifyTx(tx, pk) == VerifyContents(tx.signature, HashContents(tx), pk)

\* The transactions of byte strings: senders and module names of one byte
\* and more, two payloads, two nonces.
ByteTxs ==
    {SignedTransaction(sender, app, msg, nonce, NoSig) :
        sender \in ByteSeqs(MaxFieldLen) \ {<<>>}, app \in ByteSeqs(MaxFieldLen) \ {<<>>},
        msg \in ByteSeqs(1), nonce \in {0, 1}}

\* A client signs a transaction with bob's key.
Sign(tx) ==
    /\ resp.kind = "new"
    /\ resp' = [kind |-> "signed", tx |-> SignTx(tx, "sk_bob")]
    /\ UNCHANGED <<node, peer, auth, has_init, commits, s4, writes>>

\* The signature of the signed transaction is presented with the fields of
\* the transaction `tx` and verified with bob's public key.
Present(tx) ==
    /\ resp.kind = "signed"
    /\ resp' = [kind |-> "verified", signed |-> resp.tx,
                tx |-> [tx EXCEPT !.signature = resp.tx.signature],
                ok |-> VerifyTx([tx EXCEPT !.signature = resp.tx.signature], "pk_bob")]
    /\ UNCHANGED <<node, peer, auth, has_init, commits, s4, writes>>

NextSign ==
    \/ \E tx \in ByteTxs : Sign(tx)
    \/ \E tx \in ByteTxs : Present(tx)

SpecSign == Init /\ [][NextSign]_vars

\* -------------------------------------------------- encoded transactions
\* exonum_crypto::SIGNATURE_LENGTH, the length Signature::from_slice accepts.
SIGNATURE_LENGTH == 64

\* The bytes of the signature exonum_crypto::sign makes with the key `sk`
\* over the hash of `contents`: SIGNATURE_LENGTH bytes that determine the
\* signer and what was signed (Ed25519 signatures are deterministic; the
\* hash is taken to be collision free, the signature to be unforgeable).
SignatureBytes(contents, sk) ==
    LET head == <<IF sk = "sk_bob" THEN 1 ELSE 2, Len(contents)>> \o contents IN
    head \o [i \in 1..(SIGNATURE_LENGTH - Len(head)) |-> 0]

\* Signature::from_slice
SignatureFromSlice(bytes) ==
    IF Len(bytes) = SIGNATURE_LENGTH THEN [type |-> "Some", v |-> bytes] ELSE None

\* exonum_crypto::verify of signature bytes for the hash of `contents`
CryptoVerify(signature, contents, pk) ==
    \E sk \in SecretKeys : PkOf(sk) = pk /\ signature = SignatureBytes(contents, sk)

\* SignedTransaction::create: the signature is the empty byte string.
CreateTx(sender, app, msg, nonce) == SignedTransaction(sender, app, msg, nonce, <<>>)

\* SignedTransaction::sign (and sign_transaction), the signature as bytes.
sign(tx, sk) == [tx EXCEPT !.signature = SignatureBytes(HashContents(tx), sk)]

\* A verify_tx_signature that takes signature bytes it cannot parse for a
\* valid signature.
verify_signature_unparsed_is_valid(tx, pk) ==
    IF SignatureFromSlice(tx.signature) = None THEN TRUE
    ELSE CryptoVerify(SignatureFromSlice(tx.signature).v, HashContents(tx), pk)

\* verify_tx_signature, the signature as bytes.
verify_signature(tx, pk) ==
    IF SignatureFromSlice(tx.signature) = None THEN FALSE
    ELSE CryptoVerify(SignatureFromSlice(tx.signature).v, HashContents(tx), pk)

\* borsh of a Vec<u8> or a String: the length as a u32, then the bytes.
borsh_vec(bytes) == u32_le(Len(bytes)) \o bytes

\* An encode that writes the signature bytes without their length.
encode_without_signature_length(tx) ==
    borsh_vec(tx.sender) \o borsh_vec(tx.app) \o borsh_vec(tx.msg)
        \o u64_le(tx.nonce) \o tx.signature

\* SignedTransaction::encode: borsh of the struct, field after field.
encode(tx) ==
    borsh_vec(tx.sender) \o borsh_vec(tx.app) \o borsh_vec(tx.msg)
        \o u64_le(tx.nonce) \o borsh_vec(tx.signature)

\* u32::from_le_bytes and u64::from_le_bytes
RECURSIVE from_le_bytes(_)
from_le_bytes(bytes) ==
    IF bytes = <<>> THEN 0 ELSE Head(bytes) + 256 * from_le_bytes(Tail(bytes))

\* borsh reads `width` bytes of an integer at position pos of raw.
read_int(raw, pos, width) ==
    IF pos + width - 1 > Len(raw)
    THEN [ok |-> FALSE, v |-> 0, next |-> pos]
    ELSE [ok |-> TRUE, v |-> from_le_bytes(SubSeq(raw, pos, pos + width - 1)),
          next |-> pos + width]

\* borsh reads a Vec<u8> or a String at position pos of raw.
read_vec(raw, pos) ==
    LET len == read_int(raw, pos, 4) IN
    IF ~len.ok \/ len.next + len.v - 1 > Len(raw)
    THEN [ok |-> FALSE, v |-> <<>>, next |-> pos]
    ELSE [ok |-> TRUE, v |-> SubSeq(raw, len.next, len.next + len.v - 1),
          next |-> len.next + len.v]

\* SignedTransaction::decode: try_from_slice reads the five fields in
\* order and fails when bytes are missing or left over.
decode(raw) ==
    LET sender == read_vec(raw, 1)
        app == read_vec(raw, sender.next)
        msg == read_vec(raw, app.next)
        nonce == read_int(raw, msg.next, 8)
        signature == read_vec(raw, nonce.next)
    IN  IF /\ sender.ok /\ app.ok /\ msg.ok /\ nonce.ok /\ signature.ok
           /\ signature.next = Len(raw) + 1
        THEN Ok(SignedTransaction(sender.v, app.v, msg.v, nonce.v, signature.v))
        ELSE Err("problem decoding the signed tx")

\* The transactions a client creates: senders, module names and payloads
\* of up to MaxFieldLen bytes, a nonce of one byte and one of two.
CodecTxs ==
    {CreateTx(sender, app, msg, nonce) :
        sender \in ByteSeqs(MaxFieldLen), app \in ByteSeqs(MaxFieldLen) \ {<<>>},
        msg \in ByteSeqs(1), nonce \in {0, 300}}

\* What a client does to the signature field: sign with one of the keys,
\* leave the transaction unsigned, or cut the last byte off a signature.
Signers == SecretKeys \cup {"none", "short"}

\* A client creates a transaction and signs it (or not).
CodecCreate(tx, signer) ==
    /\ resp.kind = "new"
    /\ resp' = [kind |-> "tx_signed", tx |-> tx, signer |-> signer,
                signed |-> IF signer \in SecretKeys THEN sign(tx, signer)
                           ELSE IF signer = "none" THEN tx
                           ELSE [tx EXCEPT !.signature =
                                    SubSeq(sign(tx, "sk_bob").signature, 1,
                                           SIGNATURE_LENGTH - 1)]]
    /\ UNCHANGED <<node, peer, auth, has_init, commits, s4, writes>>

\* The client encodes the transaction.
CodecEncode ==
    /\ resp.kind = "tx_signed"
    /\ resp' = [kind |-> "tx_encoded", tx |-> resp.tx, signer |-> resp.signer,
                signed |-> resp.signed, raw |-> encode(resp.signed)]
    /\ UNCHANGED <<node, peer, auth, has_init, commits, s4, writes>>

\* The receiver decodes the bytes and verifies the signature with the
\* public key pk.
CodecDecode(pk) ==
    /\ resp.kind = "tx_encoded"
    /\ resp' = [kind |-> "tx_decoded", tx |-> resp.tx, signer |-> resp.signer,
                signed |-> resp.signed, back |-> decode(resp.raw), pk |-> pk,
                verified |-> IF decode(resp.raw).ok
                             THEN verify_signature(decode(resp.raw).v, pk)
                             ELSE FALSE]
    /\ UNCHANGED <<node, peer, auth, has_init, commits, s4, writes>>

NextCodec ==
    \/ \E tx \in CodecTxs, signer \in Signers : CodecCreate(tx, signer)
    \/ CodecEncode
    \/ \E pk \in PubKeys : CodecDecode(pk)

SpecCodec == Init /\ [][NextCodec]_vars

\* ---------------------------------------------------------- AppBuilder
\* The names modules are registered under. A registered module is told from
\* the others by its position in AppBuilder.appmodules.
ModuleNames == {APP1_NAME, "app2", RESERVED_APP_NAME}

\* No module: the service map's answer for a name it does not hold.
NoModule == 0
EmptyServiceMap == [name \in ModuleNames |-> NoModule]

\* AppBuilder::with_app, called for the names `names` in order.
with_apps(names) == [i \in 1..Len(names) |-> [name |-> names[i], module |-> i]]

\* A Node::new loop in which a module replaces the one registered before it
\* under the same name.
RECURSIVE service_map_last_wins(_, _)
service_map_last_wins(mods, map) ==
    IF mods = <<>>
    THEN [panicked |-> FALSE, appmodules |-> map]
    ELSE IF Head(mods).name = RESERVED_APP_NAME
    THEN [panicked |-> TRUE, appmodules |-> EmptyServiceMap]
    ELSE service_map_last_wins(Tail(mods), [map EXCEPT ![Head(mods).name] = Head(mods).module])

\* A Node::new loop that looks for the reserved name only in the first module.
RECURSIVE service_map_checks_first(_, _)
service_map_checks_first(mods, map) ==
    IF mods = <<>>
    THEN [panicked |-> FALSE, appmodules |-> map]
    ELSE IF Head(mods).name = RESERVED_APP_NAME /\ map = EmptyServiceMap
    THEN [panicked |-> TRUE, appmodules |-> EmptyServiceMap]
    ELSE service_map_checks_first(
             Tail(mods),
             IF map[Head(mods).name] # NoModule THEN map
             ELSE [map EXCEPT ![Head(mods).name] = Head(mods).module])

\* The route mapping loop of Node::new over config.appmodules: the reserved
\* name panics, a name the map holds already is skipped.
RECURSIVE service_map(_, _)
service_map(mods, map) ==
    IF mods = <<>>
    THEN [panicked |-> FALSE, appmodules |-> map]
    ELSE IF Head(mods).name = RESERVED_APP_NAME
    THEN [panicked |-> TRUE, appmodules |-> EmptyServiceMap]
    ELSE service_map(Tail(mods),
                     IF map[Head(mods).name] # NoModule THEN map
                     ELSE [map EXCEPT ![Head(mods).name] = Head(mods).module])

\* AppBuilder::node: a panic without modules, Node::new otherwise.
builder_node(mods) ==
    IF Len(mods) = 0
    THEN [panicked |-> TRUE, appmodules |-> EmptyServiceMap]
    ELSE service_map(mods, EmptyServiceMap)

\* The registrations: up to MaxMods names.
Registrations == UNION {[1..n -> ModuleNames] : n \in 0..MaxMods}

\* AppBuilder::new().with_app(..)...node()
Build(names) ==
    /\ resp.kind = "new"
    /\ resp' = [kind |-> "node", names |-> names,
                panicked |-> builder_node(with_apps(names)).panicked,
                appmodules |-> builder_node(with_apps(names)).appmodules]
    /\ UNCHANGED <<node, peer, auth, has_init, commits, s4, writes>>

\* The module lookup of Node::run_tx and of Application::query for the
\* module name `name`: the module whose handle_tx or handle_query is called.
Route(name) ==
    /\ resp.kind = "node"
    /\ ~resp.panicked
    /\ resp' = [kind |-> "routed", names |-> resp.names, name |-> name,
                handler |-> resp.appmodules[name]]
    /\ UNCHANGED <<node, peer, auth, has_init, commits, s4, writes>>

\* The loop of Application::init_chain over the service map: the modules
\* whose initialize is called.
InitModules ==
    /\ resp.kind = "node"
    /\ ~resp.panicked
    /\ resp' = [kind |-> "initialized", names |-> resp.names,
                modules |-> {resp.appmodules[name] : name \in ModuleNames} \ {NoModule}]
    /\ UNCHANGED <<node, peer, auth, has_init, commits, s4, writes>>

NextBuild ==
    \/ \E names \in Registrations : Build(names)
    \/ \E name \in ModuleNames : Route(name)
    \/ InitModules

SpecBuild == Init /\ [][NextBuild]_vars

\* ------------------------------------------------------------ query paths
\* The query paths: strings of up to MaxPathLen characters.
PathChars == {"a", "b", "/"}
Paths == UNION {[1..n -> PathChars] : n \in 0..MaxPathLen}

\* parse_abci_query_path(req_path)
Parse(req_path) ==
    /\ resp.kind = "new"
    /\ resp' = [kind |-> "parsed", path |-> req_path,
                result |-> parse_abci_query_path(req_path)]
    /\ UNCHANGED <<node, peer, auth, has_init, commits, s4, writes>>

NextParse == \E req_path \in Paths : Parse(req_path)

SpecParse == Init /\ [][NextParse]_vars

\* ------------------------------------------------------------ a short run
\* One transaction of each kind the node tells apart: bytes that do not
\* decode, a module that is not registered, an account transaction with a
\* good and one with a bad signature, a transaction whose handler writes
\* and fails, and one of a sender without an account whose handler
\* succeeds.
TxSample ==
    {Garbage,
     SignedTransaction("bob", "nomod", Create("pk_fake"), 0, "sk_bob"),
     gen_tx("bob", "sk_bob", 0),
     gen_tx("bob", "sk_carol", 0),
     SignedTransaction("bob", APP1_NAME, Script(<<Put("k1", "v2")>>, FALSE), 0, "sk_bob"),
     SignedTransaction("carol", APP1_NAME, Script(<<Put("k1", "v1")>>, TRUE), 1, NoSig)}

NextTx ==
    \/ InitChain
    \/ \E raw \in TxSample : CheckTx(raw)
    \/ \E raw \in TxSample : DeliverTx(raw)
    \/ Commit
    \/ \E q \in Queries : Query(q[1], q[2])

SpecTx == Init /\ [][NextTx]_vars

\* ---------------------------------------------------------------- TestKit
\* The loop of TestKit::commit_tx over its batch: deliver_tx for each
\* transaction in order, left at the first response with a non-zero code.
RECURSIVE deliver_batch(_, _, _)
deliver_batch(n, a, txs) ==
    IF txs = <<>> \/ n.panicked
    THEN [node |-> n, ok |-> ~n.panicked]
    ELSE LET r == run_tx(n, a, FALSE, Head(txs)) IN
         IF ~r.ok THEN [node |-> r.node, ok |-> FALSE]
         ELSE deliver_batch(r.node, a, Tail(txs))

\* The loop of TestKit::check_tx over its batch.
RECURSIVE check_batch(_, _, _)
check_batch(n, a, txs) ==
    IF txs = <<>> \/ n.panicked
    THEN [node |-> n, ok |-> ~n.panicked]
    ELSE LET r == run_tx(n, a, TRUE, Head(txs)) IN
         IF ~r.ok THEN [node |-> r.node, ok |-> FALSE]
         ELSE check_batch(r.node, a, Tail(txs))

\* The transactions of the batches: a put of v2 and a put of v1 whose
\* handlers return ok, an account transaction, and one for a module that is
\* not registered.
KitPutV2 == SignedTransaction("bob", APP1_NAME, Script(<<Put("k1", "v2")>>, TRUE), 0, "sk_bob")
KitPutV1 == SignedTransaction("bob", APP1_NAME, Script(<<Put("k1", "v1")>>, TRUE), 0, "sk_bob")
KitNoModule == SignedTransaction("bob", "nomod", Create("pk_fake"), 0, "sk_bob")

\* The batches handed to TestKit::commit_tx and TestKit::check_tx. The only
\* batch that writes v2 is one whose second transaction fails.
KitBatches ==
    {<<KitPutV2, KitNoModule>>,
     <<KitPutV1>>,
     <<gen_tx("bob", "sk_bob", 0)>>,
     <<gen_tx("bob", "sk_bob", 0), KitPutV1>>,
     <<KitNoModule>>,
     <<>>}

\* TestKit::check_tx
KitCheckTx(txs) ==
    /\ has_init
    /\ ~node.panicked
    /\ node.check_cache.some => NonceOf(node, node.check_cache.cache, "bob") + Len(txs) <= MaxNonce
    /\ node' = check_batch(node, auth, txs).node
    /\ peer' = check_batch(peer, auth, txs).node
    /\ resp' = IF node'.panicked THEN [kind |-> "panic", code |-> 1]
               ELSE [kind |-> "kit_check_tx",
                     code |-> IF check_batch(node, auth, txs).ok THEN 0 ELSE 1]
    /\ s4' = 0
    /\ UNCHANGED <<auth, has_init, commits, writes>>

\* TestKit::commit_tx: bail at the first failed deliver_tx, commit after
\* the last one otherwise.
KitCommitTx(txs) ==
    /\ has_init
    /\ ~node.panicked
    /\ node.deliver_cache.some =>
          NonceOf(node, node.deliver_cache.cache, "bob") + Len(txs) <= MaxNonce
    /\ LET d == deliver_batch(node, auth, txs)
           pd == deliver_batch(peer, auth, txs)
       IN  IF d.node.panicked
           THEN /\ node' = d.node
                /\ peer' = pd.node
                /\ resp' = [kind |-> "panic", code |-> 1]
                /\ UNCHANGED commits
           ELSE IF ~d.ok
           THEN /\ node' = d.node
                /\ peer' = pd.node
                /\ resp' = [kind |-> "kit_commit_tx", code |-> 1, data |-> <<>>]
                /\ UNCHANGED commits
           ELSE /\ get_chain_state(node).height < MaxHeight
                /\ \E order \in Orders(CacheKeys(d.node.deliver_cache.cache)),
                      porder \in Orders(CacheKeys(pd.node.deliver_cache.cache)) :
                     /\ node' = commit(d.node, order)
                     /\ peer' = commit(pd.node, porder)
                /\ resp' = [kind |-> "kit_commit_tx", code |-> 0,
                            data |-> commit_data(d.node)]
                /\ commits' = [n |-> commits.n + 1, data |-> commit_data(d.node),
                               peer_data |-> commit_data(pd.node),
                               merged |-> Cardinality(CacheKeys(d.node.deliver_cache.cache)),
                               dropped |-> d.node.check_cache.cache # EmptyCache]
    /\ s4' = 0
    /\ UNCHANGED <<auth, has_init, writes>>

\* TestKit::query
KitQuery(path, key) == has_init /\ Query(path, key)

NextKit ==
    \/ InitChain
    \/ \E txs \in KitBatches : KitCheckTx(txs)
    \/ \E txs \in KitBatches : KitCommitTx(txs)
    \/ \E q \in Queries : KitQuery(q[1], q[2])

SpecKit == Init /\ [][NextKit]_vars

\* ---------------------------------------------------------------- accounts
\* Transactions of the account module: the trust anchor bob creates carol's
\* account, carol changes her public key, and bob creates an account for a
\* public key that has one; every nonce the sender may be at.
AcctTxs ==
    {SignedTransaction("bob", ACCOUNT_APP_NAME, Create("pk_carol"), n, "sk_bob") : n \in Nonces}
        \cup {SignedTransaction("carol", ACCOUNT_APP_NAME, ChangePubKey("pk_carol"), n, "sk_carol") :
                  n \in Nonces}
        \cup {SignedTransaction("bob", ACCOUNT_APP_NAME, Create("pk_bob"), n, "sk_bob") : n \in Nonces}

NextAcct ==
    \/ InitChain
    \/ \E raw \in AcctTxs : CheckTx(raw)
    \/ \E raw \in AcctTxs : DeliverTx(raw)
    \/ Commit

SpecAcct == Init /\ [][NextAcct]_vars

\* ------------------------------------------------------- reads in a block
\* A transaction whose handler reads k1, fails when the read returns none and
\* dispatches the event "read" otherwise.
ReadRequire ==
    SignedTransaction("bob", APP1_NAME, Script(<<Require("k1"), Emit("read")>>, TRUE), 0, "sk_bob")

\* The transactions of the blocks: two puts of k1 whose handlers return ok,
\* the read, a removal, an account transaction and one of carol's, who has
\* no account.
ReadTxs ==
    {KitPutV1, KitPutV2, ReadRequire,
     SignedTransaction("bob", APP1_NAME, Script(<<Rm("k1")>>, TRUE), 0, "sk_bob"),
     gen_tx("bob", "sk_bob", 0),
     SignedTransaction("carol", APP1_NAME, Script(<<Put("k1", "v1")>>, TRUE), 0, "sk_carol")}

NextRead ==
    \/ InitChain
    \/ \E raw \in ReadTxs : BlockDeliverTx(raw)
    \/ BlockCommit

SpecRead == Init /\ [][NextRead]_vars

\* ------------------------------------------------ admission and execution
\* check_tx on the node alone: the peer is sent the deliver_tx and commit
\* calls of the node and none of its check_tx calls.
NodeCheckTx(raw) ==
    /\ has_init
    /\ ~node.panicked
    /\ raw # Garbage => NonceOf(node, node.check_cache.cache, raw.sender) < MaxNonce
    /\ LET r == run_tx(node, auth, TRUE, raw)
       IN  /\ node' = r.node
           /\ resp' = [kind |-> "check_tx", code |-> IF r.ok THEN 0 ELSE 1, log |-> r.log]
    /\ s4' = 0
    /\ UNCHANGED <<peer, auth, has_init, commits, writes>>

NextIso ==
    \/ InitChain
    \/ \E raw \in TxSample \cup {KitPutV1} : NodeCheckTx(raw)
    \/ \E raw \in TxSample \cup {KitPutV1} : DeliverTx(raw)
    \/ Commit

SpecIso == Init /\ [][NextIso]_vars

\* ----------------------------------------------------- the patch-based Node
\* The Node of src/rapido/src/lib.rs with the two services of its tests, the
\* account service and the proof-of-DNA service. Every deliver_tx runs on a
\* fork of the database and the patches of the forks are merged at commit.
ACCOUNT_SERVICE_ROUTE == "accounts_service"
PODNA_SERVICE_ROUTE == "proof_of_dna_service"
ACCOUNTS_STORE == "_accounts_store_"
A_TO_D_STORE == "_podna_a_to_d_store_"
D_TO_A_STORE == "_podna_d_to_a_store_"
REGISTRATION_COST == 5
WALLET_BALANCE == 5

\* The wallets of the genesis data, an address that has no account, and the
\* DNA hashes that are registered.
Wallets == {"owner", "bob", "alice"}
Addresses == Wallets \cup {"stranger"}
Dnas == {"d2", "d3"}

DbKeys ==
    ({ACCOUNTS_STORE, A_TO_D_STORE} \X Addresses) \cup ({D_TO_A_STORE} \X Dnas)

\* TemporaryDB::new(), and the patch of a fork nothing was written to.
EmptyDb == [k \in DbKeys |-> Absent]
EmptyPatch == [k \in DbKeys |-> NoEntry]

\* db.fork(), reads and writes of an index through the fork, db.merge(patch).
Fork(db) == [db |-> db, patch |-> EmptyPatch]
ForkGet(fork, k) == IF fork.patch[k] # NoEntry THEN fork.patch[k] ELSE fork.db[k]
ForkPut(fork, k, v) == [fork EXCEPT !.patch[k] = v]
Merge(db, patch) == [k \in DbKeys |-> IF patch[k] # NoEntry THEN patch[k] ELSE db[k]]

\* Account::new of the account service, and the values of the DNA stores.
WalletAccount(id, balance) == [type |-> "WalletAccount", id |-> id, balance |-> balance]
DnaHash(d) == [type |-> "Hash", v |-> d]
AcctId(a) == [type |-> "Id", v |-> a]

\* AccountStore::transfer
transfer(fork, sender, recip, amount) ==
    LET from_account == ForkGet(fork, <<ACCOUNTS_STORE, sender>>)
        to_account == ForkGet(fork, <<ACCOUNTS_STORE, recip>>)
    IN  IF from_account = Absent THEN Handled(FALSE, fork)
        ELSE IF to_account = Absent THEN Handled(FALSE, fork)
        ELSE IF from_account.balance < amount THEN Handled(FALSE, fork)
        ELSE LET fa == [from_account EXCEPT !.balance = @ - amount]
                 ta == [to_account EXCEPT !.balance = @ + amount]
             IN  Handled(TRUE, ForkPut(ForkPut(fork, <<ACCOUNTS_STORE, sender>>, fa),
                                       <<ACCOUNTS_STORE, recip>>, ta))

\* DNAStore::register_dna
register_dna(fork, acct, dna) ==
    IF ForkGet(fork, <<D_TO_A_STORE, dna>>) # Absent THEN Handled(FALSE, fork)
    ELSE Handled(TRUE, ForkPut(ForkPut(fork, <<A_TO_D_STORE, acct>>, DnaHash(dna)),
                               <<D_TO_A_STORE, dna>>, AcctId(acct)))

\* RegisterTx and its execute: the registration is written first, the
\* payment of its cost is made after it.
RegisterTx(to_pay, dna) == [m |-> "RegisterTx", to_pay |-> to_pay, dna |-> dna]
RegisterExecute(msg, sender, fork) ==
    LET acct == ForkGet(fork, <<ACCOUNTS_STORE, sender>>) IN
    IF acct = Absent THEN Handled(FALSE, fork)
    ELSE LET r == register_dna(fork, acct.id, msg.dna) IN
         IF ~r.ok THEN r
         ELSE transfer(r.view, sender, msg.to_pay, REGISTRATION_COST)

\* SignedTransaction::new followed by sign_transaction with the key of
\* `signer`, and a payload that RegisterTx::try_from_slice cannot read.
BadPayload == [m |-> "BadPayload"]
PatchTx(sender, route, payload, signer) ==
    [sender |-> sender, route |-> route, payload |-> payload, signer |-> signer]

\* Service::decode_tx followed by Transaction::execute, for the service of
\* the route: the account service decodes no message.
service_execute(tx, fork) ==
    IF tx.route = ACCOUNT_SERVICE_ROUTE THEN Handled(FALSE, fork)
    ELSE IF tx.payload = BadPayload THEN Handled(FALSE, fork)
    ELSE RegisterExecute(tx.payload, tx.sender, fork)

\* authenticate_sender, the validation handler of the tests.
authenticate_sender(tx, snapshot) ==
    /\ snapshot[<<ACCOUNTS_STORE, tx.sender>>] # Absent
    /\ tx.signer = tx.sender

\* Node::new: AppBuilder with the two services, a fresh database.
PatchServices == {ACCOUNT_SERVICE_ROUTE, PODNA_SERVICE_ROUTE}
ProofTableKeys ==
    {<<ACCOUNT_SERVICE_ROUTE, 0>>, <<PODNA_SERVICE_ROUTE, 0>>, <<PODNA_SERVICE_ROUTE, 1>>}
DefaultAppState == [height |-> 0, hash |-> <<>>]
NewPatchNode ==
    [db |-> EmptyDb,
     proof_table |-> [k \in ProofTableKeys |-> Absent],
     commit_table |-> None,
     app_state |-> DefaultAppState,
     commit_patches |-> <<>>]

\* A run_tx that saves the patch of the fork whatever execute returned.
patch_run_tx_saves_every_patch(n, is_check, raw_tx) ==
    IF raw_tx = Garbage THEN [node |-> n, ok |-> FALSE]
    ELSE IF raw_tx.route \notin PatchServices THEN [node |-> n, ok |-> FALSE]
    ELSE IF is_check THEN [node |-> n, ok |-> authenticate_sender(raw_tx, n.db)]
    ELSE LET result == service_execute(raw_tx, Fork(n.db)) IN
         [node |-> [n EXCEPT !.commit_patches = Append(@, result.view.patch)],
          ok |-> result.ok]

\* Node::run_tx of the patch-based Node.
patch_run_tx(n, is_check, raw_tx) ==
    IF raw_tx = Garbage THEN [node |-> n, ok |-> FALSE]
    ELSE IF raw_tx.route \notin PatchServices THEN [node |-> n, ok |-> FALSE]
    ELSE IF is_check THEN [node |-> n, ok |-> authenticate_sender(raw_tx, n.db)]
    ELSE LET result == service_execute(raw_tx, Fork(n.db)) IN
         IF result.ok
         THEN [node |-> [n EXCEPT !.commit_patches = Append(@, result.view.patch)],
               ok |-> TRUE]
         ELSE [node |-> n, ok |-> FALSE]

\* Service::genesis of the account service on the wallets' genesis data
\* (AccountStore::create skips an account that exists); the genesis of the
\* DNA service writes nothing. Both patches are saved.
patch_init_chain(n) ==
    LET genesis == [k \in DbKeys |->
                      IF k[1] = ACCOUNTS_STORE /\ k[2] \in Wallets /\ n.db[k] = Absent
                      THEN WalletAccount(k[2], WALLET_BALANCE) ELSE NoEntry]
    IN  [n EXCEPT !.commit_patches = @ \o <<genesis, EmptyPatch>>]

\* The object hash of an index of the database: its contents.
StoreHash(db, name) == [k \in {key \in DbKeys : key[1] = name} |-> db[k]]

\* Service::store_hashes of the service `route`.
store_hashes(route, db) ==
    IF route = ACCOUNT_SERVICE_ROUTE THEN <<StoreHash(db, ACCOUNTS_STORE)>>
    ELSE <<StoreHash(db, A_TO_D_STORE), StoreHash(db, D_TO_A_STORE)>>

\* Node::commit of the patch-based Node: merge the patches in order, save
\* the store hashes of the services in the proof table, the root hash of the
\* table is the new apphash.
RECURSIVE MergeAll(_, _)
MergeAll(db, patches) ==
    IF patches = <<>> THEN db ELSE MergeAll(Merge(db, Head(patches)), Tail(patches))

patch_commit(n) ==
    LET db == MergeAll(n.db, n.commit_patches)
        table == [k \in ProofTableKeys |-> store_hashes(k[1], db)[k[2] + 1]]
        new_state == [height |-> n.app_state.height + 1, hash |-> <<table>>]
    IN  [n EXCEPT !.db = db, !.proof_table = table, !.commit_table = new_state,
                  !.app_state = new_state, !.commit_patches = <<>>]

\* Node::info of the patch-based Node
patch_info(n) ==
    [n EXCEPT !.app_state = IF n.commit_table = None THEN DefaultAppState
                            ELSE n.commit_table]

\* The transactions sent to the node.
PatchTxs ==
    {PatchTx(s, PODNA_SERVICE_ROUTE, RegisterTx("owner", d), s) :
        s \in {"bob", "alice", "stranger"}, d \in Dnas}
    \cup {PatchTx("bob", PODNA_SERVICE_ROUTE, RegisterTx("stranger", "d3"), "bob"),
          PatchTx("bob", PODNA_SERVICE_ROUTE, RegisterTx("owner", "d2"), "alice"),
          PatchTx("bob", PODNA_SERVICE_ROUTE, BadPayload, "bob"),
          PatchTx("bob", ACCOUNT_SERVICE_ROUTE, RegisterTx("owner", "d2"), "bob"),
          PatchTx("bob", "hello", RegisterTx("owner", "d2"), "bob"),
          Garbage}

\* The node, and in `commits` the number of commits, the apphash of the
\* last one, the deliver_tx calls of the block under way and those of them
\* that failed, and the same two numbers for the block committed last.
PatchInit ==
    /\ node = NewPatchNode
    /\ peer = NewPatchNode
    /\ auth = "handler"
    /\ has_init = FALSE
    /\ resp = [kind |-> "new", code |-> 0]
    /\ commits = [n |-> 0, data |-> <<>>, delivered |-> 0, failed |-> 0,
                  last_delivered |-> 0, last_failed |-> 0]
    /\ s4 = 0
    /\ writes = [seq |-> <<>>, committed |-> FALSE]

PatchInitChain ==
    /\ ~has_init
    /\ commits.n = 0
    /\ has_init' = TRUE
    /\ node' = patch_init_chain(node)
    /\ resp' = [kind |-> "init_chain", code |-> 0]
    /\ UNCHANGED <<peer, auth, commits, s4, writes>>

PatchCheckTx(raw) ==
    /\ node' = patch_run_tx(node, TRUE, raw).node
    /\ resp' = [kind |-> "check_tx",
                code |-> IF patch_run_tx(node, TRUE, raw).ok THEN 0 ELSE 1]
    /\ UNCHANGED <<peer, auth, has_init, commits, s4, writes>>

PatchDeliverTx(raw) ==
    /\ commits.delivered < MaxWrites
    /\ node' = patch_run_tx(node, FALSE, raw).node
    /\ resp' = [kind |-> "deliver_tx",
                code |-> IF patch_run_tx(node, FALSE, raw).ok THEN 0 ELSE 1]
    /\ commits' = [commits EXCEPT
                     !.delivered = @ + 1,
                     !.failed = IF patch_run_tx(node, FALSE, raw).ok THEN @ ELSE @ + 1]
    /\ UNCHANGED <<peer, auth, has_init, s4, writes>>

PatchCommit ==
    /\ node.app_state.height < MaxHeight + 1
    /\ node' = patch_commit(node)
    /\ resp' = [kind |-> "commit", code |-> 0, data |-> node'.app_state.hash]
    /\ commits' = [n |-> commits.n + 1, data |-> node'.app_state.hash,
                   delivered |-> 0, failed |-> 0,
                   last_delivered |-> commits.delivered, last_failed |-> commits.failed]
    /\ UNCHANGED <<peer, auth, has_init, s4, writes>>

PatchInfo ==
    /\ node' = patch_info(node)
    /\ resp' = [kind |-> "info", code |-> 0, last_block_height |-> node'.app_state.height,
                last_block_app_hash |-> node'.app_state.hash]
    /\ UNCHANGED <<peer, auth, has_init, commits, s4, writes>>

NextPatch ==
    \/ PatchInitChain
    \/ \E raw \in PatchTxs : PatchCheckTx(raw)
    \/ \E raw \in PatchTxs : PatchDeliverTx(raw)
    \/ PatchCommit
    \/ PatchInfo

SpecPatch == PatchInit /\ [][NextPatch]_vars

\* ------------------------------------------------------------- StateStore
\* The write batch of src/src/store/mod.rs: a cache of write operations over
\* the state map of the database, flushed by commit into a fork that the
\* caller merges.
StateKeys == {"acct1", "acct2"}
Blob(b) == [type |-> "Blob", blob |-> b]
StateValues == {Blob("x"), Blob("y")}

\* WriteOp
WriteOpPut(v, dirty) == [op |-> "Put", v |-> v, dirty |-> dirty]
WriteOpDelete == [op |-> "Delete"]

\* StateStore::new on a fresh TemporaryDB
NewStateStore ==
    [cache |-> [k \in StateKeys |-> NoEntry],
     db |-> [k \in StateKeys |-> Absent],
     panicked |-> FALSE]

\* StateStore::save, put, remove
state_save(s, k, op) == [s EXCEPT !.cache[k] = op]
state_put(s, k, v) == state_save(s, k, WriteOpPut(v, TRUE))
state_remove(s, k) == state_save(s, k, WriteOpDelete)

\* StateStore::get_account
get_account(s, key) == IF s.db[key] = Absent THEN None ELSE s.db[key]

\* StateStore::get: the cache first; a value found in the database alone is
\* added to the cache as a put that is not dirty.
state_get(s, key) ==
    IF s.cache[key] # NoEntry
    THEN [store |-> s,
          value |-> IF s.cache[key].op = "Put" THEN s.cache[key].v ELSE None]
    ELSE IF get_account(s, key) # None
    THEN [store |-> state_save(s, key, WriteOpPut(get_account(s, key), FALSE)),
          value |-> get_account(s, key)]
    ELSE [store |-> s, value |-> None]

\* StateStore::size
state_size(s) == Cardinality({k \in StateKeys : s.cache[k] # NoEntry})

\* StateStore::commit on a fork of the database, and the merge of the fork
\* by its caller: dirty puts and deletes are written; the arm of any other
\* entry is unimplemented!(), which panics, the fork being dropped and the
\* cache drained.
state_commit(s) ==
    IF \E k \in StateKeys : s.cache[k] # NoEntry /\ s.cache[k].op = "Put" /\ ~s.cache[k].dirty
    THEN [s EXCEPT !.cache = [k \in StateKeys |-> NoEntry], !.panicked = TRUE]
    ELSE [s EXCEPT !.cache = [k \in StateKeys |-> NoEntry],
                   !.db = [k \in StateKeys |->
                              IF s.cache[k] = NoEntry THEN s.db[k]
                              ELSE IF s.cache[k].op = "Put" THEN s.cache[k].v
                              ELSE Absent]]

\* StateStore::reset_cache
state_reset_cache(s) == [s EXCEPT !.cache = [k \in StateKeys |-> NoEntry]]

StateInit ==
    /\ node = NewStateStore
    /\ peer = NewStateStore
    /\ auth = "none"
    /\ has_init = TRUE
    /\ resp = [kind |-> "new", code |-> 0]
    /\ commits = [n |-> 0]
    /\ s4 = 0
    /\ writes = [seq |-> <<>>, committed |-> FALSE]

StatePut(k, v) ==
    /\ ~node.panicked
    /\ node' = state_put(node, k, v)
    /\ resp' = [kind |-> "put", code |-> 0]
    /\ UNCHANGED <<peer, auth, has_init, commits, s4, writes>>

StateGet(k) ==
    /\ ~node.panicked
    /\ node' = state_get(node, k).store
    /\ resp' = [kind |-> "get", code |-> 0, value |-> state_get(node, k).value]
    /\ UNCHANGED <<peer, auth, has_init, commits, s4, writes>>

StateRemove(k) ==
    /\ ~node.panicked
    /\ node' = state_remove(node, k)
    /\ resp' = [kind |-> "remove", code |-> 0]
    /\ UNCHANGED <<peer, auth, has_init, commits, s4, writes>>

\* commit; `peer` keeps the store as it was before the commit.
StateCommit ==
    /\ ~node.panicked
    /\ node' = state_commit(node)
    /\ peer' = node
    /\ resp' = IF node'.panicked THEN [kind |-> "panic", code |-> 1]
               ELSE [kind |-> "commit", code |-> 0, data |-> <<node'.db>>]
    /\ UNCHANGED <<auth, has_init, commits, s4, writes>>

StateResetCache ==
    /\ ~node.panicked
    /\ node' = state_reset_cache(node)
    /\ resp' = [kind |-> "reset_cache", code |-> 0]
    /\ UNCHANGED <<peer, auth, has_init, commits, s4, writes>>

StateSize ==
    /\ ~node.panicked
    /\ resp' = [kind |-> "size", code |-> state_size(node)]
    /\ UNCHANGED <<node, peer, auth, has_init, commits, s4, writes>>

NextState ==
    \/ \E k \in StateKeys, v \in StateValues : StatePut(k, v)
    \/ \E k \in StateKeys : StateGet(k)
    \/ \E k \in StateKeys : StateRemove(k)
    \/ StateCommit
    \/ StateResetCache
    \/ StateSize

SpecState == StateInit /\ [][NextState]_vars

\* ----------------------------------------------------------------- events
\* The messages of the second module that dispatch events: two events
\* around a put, two events in the other order, an event before a put and
\* an error, and an event on each side of a `require`.
EventMsgs ==
    {Script(<<Emit("a"), Put("k1", "v1"), Emit("b")>>, TRUE),
     Script(<<Emit("b"), Emit("a")>>, TRUE),
     Script(<<Emit("a"), Put("k1", "v2")>>, FALSE),
     Script(<<Emit("a"), Require("k1"), Emit("b")>>, TRUE)}

\* The transactions that carry them: bob's, one of carol's (who has no
\* account), one for a module that is not registered, and an account
\* transaction, whose handler dispatches nothing.
EventTxs ==
    {SignedTransaction("bob", APP1_NAME, m, 0, "sk_bob") : m \in EventMsgs}
    \cup
    {SignedTransaction("carol", APP1_NAME, Script(<<Emit("a")>>, TRUE), 0, "sk_carol"),
     SignedTransaction("bob", "nomod", Script(<<Emit("a")>>, TRUE), 0, "sk_bob"),
     gen_tx("bob", "sk_bob", 0)}

NextEvents ==
    \/ InitChain
    \/ \E raw \in EventTxs : DeliverTx(raw)
    \/ Commit

SpecEvents == Init /\ [][NextEvents]_vars

\* ================================================================= claims
\* The node with both staging caches emptied, with the admission cache
\* emptied, and with the execution cache emptied.
NoCaches(n) ==
    [n EXCEPT !.check_cache = SomeCache(EmptyCache), !.deliver_cache = SomeCache(EmptyCache)]
NoCheckCache(n) == [n EXCEPT !.check_cache = SomeCache(EmptyCache)]
NoDeliverCache(n) == [n EXCEPT !.deliver_cache = SomeCache(EmptyCache)]

K1 == StoreKeyHash(APP1_STORE_NAME, "k1")
Bob == StoreKeyHash(ACCOUNT_STORE_NAME, "bob")

\* C1: a deliver_tx whose handler returns an error leaves the execution
\* cache as it was, but for the authenticator's nonce advancement.
C1_FailedDeliverOnlyAdvancesNonce ==
    [][\A raw \in Txs :
         ( /\ DeliverTx(raw)
           /\ raw.app \in appmodules
           /\ node.deliver_cache.some
           /\ node'.deliver_cache.some
           /\ ~handle_tx(raw.app, raw, Wrap(node.store, node.deliver_cache.cache)).ok )
         => node'.deliver_cache.cache =
              increment_nonce(auth, raw, Wrap(node.store, node.deliver_cache.cache)).v.cache]_vars

\* C2: the value v2, which only the handler that then fails writes to k1,
\* is never merged into the database and never returned by a query.
C2_FailedWriteNeverCommitted ==
    /\ node.store[K1] # App1Bytes("v2")
    /\ (resp.kind = "query" /\ resp.code = 0) => resp.value # App1Bytes("v2")

\* C3: in the sequence of check_tx calls with bob's nonces 0, 1, 2, 3, 5, 4
\* the first four are admitted, the fifth is rejected, the sixth admitted.
C3_NonceSequenceAdmission ==
    /\ s4 \in 1..4 => resp.code = 0
    /\ s4 = 5 => resp.code = 1
    /\ s4 = 6 => resp.code = 0

\* C4: the two staging caches are isolated: what deliver_tx, init_chain,
\* commit and query do does not depend on the admission cache, and what
\* check_tx does does not depend on the execution cache.
C4_CachesIsolated ==
    /\ \A raw \in RawTxs :
         LET r == run_tx(node, auth, FALSE, raw)
             e == run_tx(NoCheckCache(node), auth, FALSE, raw)
         IN  /\ r.ok = e.ok
             /\ r.node.deliver_cache = e.node.deliver_cache
             /\ r.node.store = e.node.store
    /\ \A raw \in RawTxs :
         LET r == run_tx(node, auth, TRUE, raw)
             e == run_tx(NoDeliverCache(node), auth, TRUE, raw)
         IN  /\ r.ok = e.ok
             /\ r.node.check_cache = e.node.check_cache
             /\ r.node.store = e.node.store
    /\ node.deliver_cache.some =>
         \A order \in Orders(CacheKeys(node.deliver_cache.cache)) :
            /\ commit(node, order).store = commit(NoCheckCache(node), order).store
            /\ commit(node, order).chain = commit(NoCheckCache(node), order).chain
            /\ \A mods \in Orders(appmodules) :
                 init_chain(node, mods, order).store
                    = init_chain(NoCheckCache(node), mods, order).store
    /\ \A q \in Queries : query(node, q[1], q[2]) = query(NoCaches(node), q[1], q[2])

\* A deliver_tx has run while the two caches hold different entries for bob.
C4_Witness ==
    /\ resp.kind = "deliver_tx"
    /\ node.check_cache.some /\ node.deliver_cache.some
    /\ node.check_cache.cache[Bob] # NoEntry
    /\ node.deliver_cache.cache[Bob] # NoEntry
    /\ node.check_cache.cache[Bob] # node.deliver_cache.cache[Bob]

\* C5: right after a commit both caches are empty, and check_tx admits
\* exactly the transactions the authenticator validates against the
\* committed state.
C5_CommitEmptiesCaches ==
    resp.kind = "commit" =>
        /\ node.check_cache = SomeCache(EmptyCache)
        /\ node.deliver_cache = SomeCache(EmptyCache)
        /\ \A a \in AccountIds :
             NonceOf(node, node.check_cache.cache, a) = NonceOf(node, EmptyCache, a)
        /\ \A raw \in Txs :
             raw.app \in appmodules =>
                run_tx(node, auth, TRUE, raw).ok
                    = validate(auth, raw, WrapSnapshot(node.store)).ok

\* A commit that dropped speculative nonce advances of the admission cache.
C5_Witness ==
    /\ resp.kind = "commit"
    /\ auth = "account"
    /\ commits.dropped
    /\ NonceOf(node, EmptyCache, "bob") = 1

\* C6: the two nodes, fed the same calls, return the same apphash at every
\* commit and hold the same database, whatever the iteration orders.
C6_SameApphash ==
    /\ commits.data = commits.peer_data
    /\ node.store = peer.store
    /\ node.chain = peer.chain

\* A commit that merged several cache entries, a put and a remove among them.
C6_Witness ==
    /\ resp.kind = "commit"
    /\ commits.merged >= 2
    /\ commits.data = commits.peer_data

\* C7: the stored height is the number of commits made.
C7_HeightCountsCommits ==
    /\ get_chain_state(node).height = commits.n
    /\ node.chain.some <=> commits.n > 0

C7_Witness == commits.n = MaxHeight /\ get_chain_state(node).height = MaxHeight

\* C8: the apphash a commit returns is the aggregator hash of the store as
\* the commit leaves it.
C8_ApphashOfCommittedStore ==
    resp.kind = "commit" => resp.data = ObjectHash([set |-> TRUE, store |-> node.store])

\* C9: info returns the height and the apphash of the most recent commit,
\* the apphash being the data that commit returned, and height 0 with an
\* empty apphash before any commit; it leaves the node as it is.
C9_InfoReturnsLastCommit ==
    /\ info(node).height = commits.n
    /\ info(node).data = commits.data
    /\ commits.n = 0 => (info(node).height = 0 /\ info(node).data = <<>>)
    /\ resp.kind = "info" => (resp.height = commits.n /\ resp.data = commits.data)

C9_Witness ==
    /\ resp.kind = "info"
    /\ commits.n > 0
    /\ resp.data = commits.data
    /\ resp.data # <<>>

\* C10: a query returns what the committed snapshot holds, whatever the
\* staging caches hold, and Store::query on a view returns the snapshot's
\* value also when the view's cache holds an entry for the key.
C10_QueryReadsCommittedOnly ==
    /\ resp.kind = "query" =>
         \E q \in Queries : resp = query(NoCaches(node), q[1], q[2])
    /\ (resp.kind = "query" /\ resp.code = 0) =>
         \E k \in AllKeys : node.store[k] = resp.value
    /\ node.deliver_cache.some =>
         \A k \in App1Keys :
            StoreQuery(APP1_STORE_NAME, "App1", k, Wrap(node.store, node.deliver_cache.cache))
               = StoreQuery(APP1_STORE_NAME, "App1", k, WrapSnapshot(node.store))

\* A query answered with the committed account of bob while the execution
\* cache stages another one.
C10_Witness ==
    /\ resp.kind = "query"
    /\ resp.code = 0
    /\ resp.key = "bob"
    /\ node.deliver_cache.some
    /\ node.deliver_cache.cache[Bob] # NoEntry
    /\ node.deliver_cache.cache[Bob] # Add(resp.value)

\* C11: a commit merges the execution cache into the database as an
\* overlay: a key with a cached Add holds the added value, a key with a
\* cached Remove is absent, every other key is unchanged; and a query made on
\* the node the commit leaves observes these values.
C11_CommitMergesOverlay ==
    [][(resp'.kind = "commit" /\ node.deliver_cache.some) =>
         LET cache == node.deliver_cache.cache
             overlay == [k \in AllKeys |->
                            IF cache[k] = NoEntry THEN node.store[k]
                            ELSE IF cache[k] = Remove THEN Absent
                            ELSE cache[k].v]
         IN  /\ node'.store = overlay
             /\ LET r == query(node', <<APP1_NAME>>, "k1") IN
                 IF overlay[K1] = Absent THEN r.code = 1
                 ELSE r.code = 0 /\ r.value = overlay[K1]
             /\ LET r == query(node', <<ACCOUNT_APP_NAME, "/">>, "fake") IN
                 IF overlay[StoreKeyHash(ACCOUNT_STORE_NAME, "fake")] = Absent
                 THEN r.code = 1
                 ELSE r.code = 0
                      /\ r.value = overlay[StoreKeyHash(ACCOUNT_STORE_NAME, "fake")]]_vars

\* A commit that merged a Remove of k1 into a database whose last patch (the
\* one the returned apphash aggregates) held v1 under k1.
C11_Witness ==
    /\ resp.kind = "commit"
    /\ commits.n = 2
    /\ commits.merged >= 1
    /\ node.store[K1] = Absent
    /\ resp.data[2][K1] = App1Bytes("v1")

\* C12: of the writes that the deliver_tx calls of one block make to k1, the
\* execution cache holds the last one and the commit stores its value; and
\* within a view a put or a remove replaces the entry the key had.
C12_LastWriteWins ==
    /\ (~writes.committed /\ writes.seq # <<>> /\ node.deliver_cache.some) =>
          node.deliver_cache.cache[K1] = writes.seq[Len(writes.seq)]
    /\ (writes.committed /\ writes.seq # <<>> /\ ~node.panicked) =>
          node.store[K1] = IF writes.seq[Len(writes.seq)] = Remove THEN Absent
                           ELSE writes.seq[Len(writes.seq)].v
    /\ node.deliver_cache.some =>
          LET view == Wrap(node.store, node.deliver_cache.cache) IN
          \A a, b \in App1Values :
             /\ ViewPut(ViewPut(view, K1, App1Bytes(a)), K1, App1Bytes(b)).cache[K1]
                   = Add(App1Bytes(b))
             /\ ViewPut(ViewRemove(view, K1), K1, App1Bytes(b)).cache[K1]
                   = Add(App1Bytes(b))
             /\ ViewRemove(ViewPut(view, K1, App1Bytes(a)), K1).cache[K1] = Remove
             /\ ViewPut(view, K1, App1Bytes(b)).cache[K1] = Add(App1Bytes(b))
             /\ ViewRemove(view, K1).cache[K1] = Remove

\* A commit of a block in which two deliver_tx calls wrote different values
\* to k1.
C12_Witness ==
    /\ resp.kind = "commit"
    /\ writes.committed
    /\ Len(writes.seq) = MaxWrites
    /\ writes.seq[1] # writes.seq[Len(writes.seq)]
    /\ node.store[K1] = App1Bytes("v1")

\* C13: while the execution cache holds a Remove for k1, a get of k1 through
\* the view returns none, whatever the committed snapshot holds under k1.
C13_RemovedKeyReadsNone ==
    (node.deliver_cache.some /\ node.deliver_cache.cache[K1] = Remove) =>
        StoreGet(APP1_STORE_NAME, "App1", "k1",
                 Wrap(node.store, node.deliver_cache.cache)) = None

\* C14: exists is true exactly for the digests the cache maps to an Add.
C14_ExistsIffAdd ==
    node.deliver_cache.some =>
        \A k \in AllKeys :
           LET view == Wrap(node.store, node.deliver_cache.cache) IN
           ViewExists(view, k) <=> (view.cache[k] # NoEntry /\ view.cache[k] # Remove)

\* C15: a get or query under (n2, k2) never returns the value put under
\* (n1, k1) when the store names n1 and n2 differ, and returns it when name
\* and key are the same.
C15_StoreNamesNeverAlias ==
    resp.kind = "get" =>
        /\ resp.name # resp.get_name => ~resp.hit
        /\ (resp.name = resp.get_name /\ resp.key = resp.get_key) => resp.hit

\* A get of the same user key under another store name, the first name being
\* the second one without its last byte.
C15_Witness ==
    /\ resp.kind = "get"
    /\ resp.key = resp.get_key
    /\ Len(resp.get_name) = Len(resp.name) + 1
    /\ SubSeq(resp.get_name, 1, Len(resp.name)) = resp.name
    /\ ~resp.hit

\* C16: transactions that differ in sender, module name, payload or nonce
\* have different hash inputs, so the signature of one does not verify for
\* the other.
C16_SigningDigestInjective ==
    ( /\ resp.kind = "verified"
      /\ \/ resp.tx.sender # resp.signed.sender
         \/ resp.tx.app # resp.signed.app
         \/ resp.tx.msg # resp.signed.msg
         \/ resp.tx.nonce # resp.signed.nonce )
    => (HashContents(resp.tx) # HashContents(resp.signed) /\ ~resp.ok)

\* C17: of the modules registered under one name the first handles the
\* transactions and queries routed to the name and is the one initialized;
\* a later one is never called.
C17_FirstRegisteredWins ==
    /\ resp.kind = "routed" =>
          /\ \A i \in 1..Len(resp.names) :
                (resp.names[i] = resp.name /\ \A j \in 1..(i - 1) : resp.names[j] # resp.name)
                   => resp.handler = i
          /\ (\A i \in 1..Len(resp.names) : resp.names[i] # resp.name)
                => resp.handler = NoModule
    /\ resp.kind = "initialized" =>
          resp.modules =
             {i \in 1..Len(resp.names) : \A j \in 1..(i - 1) : resp.names[j] # resp.names[i]}

\* A transaction routed to a name that two modules were registered under.
C17_Witness ==
    /\ resp.kind = "routed"
    /\ \E i, j \in 1..Len(resp.names) :
          i < j /\ resp.names[i] = resp.name /\ resp.names[j] = resp.name
    /\ resp.handler = 1

\* C18: building a node panics whenever a module is registered under the
\* reserved name, at any position, and does not panic for one or more
\* modules with other names.
C18_ReservedNameRejected ==
    resp.kind = "node" =>
        /\ (\E i \in 1..Len(resp.names) : resp.names[i] = RESERVED_APP_NAME)
              => (resp.panicked /\ resp.appmodules = EmptyServiceMap)
        /\ ( /\ Len(resp.names) > 0
             /\ \A i \in 1..Len(resp.names) : resp.names[i] # RESERVED_APP_NAME )
              => ~resp.panicked

\* A build that registers the reserved name last, after valid modules.
C18_Witness ==
    /\ resp.kind = "node"
    /\ Len(resp.names) = MaxMods
    /\ resp.names[1] = APP1_NAME
    /\ resp.names[MaxMods] = RESERVED_APP_NAME
    /\ resp.panicked

\* C19: the query path parser returns none for the empty path and for "/",
\* (path, "/") for a path without "/", none for a path whose first "/" is its
\* first character, and otherwise (name, rest), split before the first "/".
C19_QueryPathParser ==
    resp.kind = "parsed" =>
        LET p == resp.path
            r == resp.result
            slashes == {i \in 1..Len(p) : p[i] = "/"}
        IN  /\ (p = <<>> \/ p = <<"/">>) => r = None
            /\ (p # <<>> /\ slashes = {}) =>
                  r = [type |-> "Some", appname |-> p, path |-> <<"/">>]
            /\ (slashes # {} /\ 1 \in slashes) => r = None
            /\ (slashes # {} /\ 1 \notin slashes) =>
                  LET first == CHOOSE i \in slashes : \A j \in slashes : i <= j IN
                  /\ r = [type |-> "Some", appname |-> SubSeq(p, 1, first - 1),
                          path |-> SubSeq(p, first, Len(p))]
                  /\ r.appname \o r.path = p
                  /\ r.path[1] = "/"
                  /\ \A i \in 1..Len(r.appname) : r.appname[i] # "/"

\* A path with two "/" parsed into a name and a rest that holds both.
C19_Witness ==
    /\ resp.kind = "parsed"
    /\ resp.result # None
    /\ Len(resp.result.path) >= 3
    /\ resp.result.path[1] = "/"
    /\ resp.result.path[3] = "/"

\* C20: a check_tx or deliver_tx of bytes that do not decode, or of a
\* transaction for a module that is not registered, fails and leaves the
\* node (database and both caches) as it is, whatever the authenticator;
\* the response to such a call has a non-zero code.
C20_RejectedBeforeAnyEffect ==
    /\ \A raw \in BlockTxs :
          (raw = Garbage \/ raw.app \notin appmodules) =>
             \A is_check \in BOOLEAN :
                /\ ~run_tx(node, auth, is_check, raw).ok
                /\ run_tx(node, auth, is_check, raw).node = node
                /\ run_tx(node, "default", is_check, raw) = run_tx(node, "account", is_check, raw)
    /\ ( /\ resp.kind \in {"check_tx", "deliver_tx"}
         /\ resp.log \in {"problem decoding the signed tx",
                          "No registered AppModule found for name"} )
          => resp.code = 1

\* A deliver_tx for a module that is not registered, answered while both
\* caches hold entries.
C20_Witness ==
    /\ resp.kind = "deliver_tx"
    /\ resp.log = "No registered AppModule found for name"
    /\ node.check_cache.some /\ node.check_cache.cache # EmptyCache
    /\ node.deliver_cache.some /\ node.deliver_cache.cache # EmptyCache

\* C21: in every state the node reaches, a deliver_tx that reaches the
\* handler leaves in the execution cache what one nonce advancement makes of
\* the view the handler returned, whether the handler returned ok or an
\* error; with the account authenticator a failed execution by a sender
\* that has an account raises the sender's nonce in the execution cache by
\* one, and the call is answered with a non-zero code.
C21_DeliverAdvancesNonceOnce ==
    /\ (node.deliver_cache.some /\ ~node.panicked) =>
         \A raw \in BlockTxs \ {Garbage} :
            raw.app \in appmodules =>
               LET view == Wrap(node.store, node.deliver_cache.cache)
                   handled == handle_tx(raw.app, raw, view)
                   inc == increment_nonce(auth, raw, handled.view)
                   sender == StoreGet(ACCOUNT_STORE_NAME, "Account", raw.sender, view)
                   r == run_tx(node, auth, FALSE, raw)
               IN  /\ inc.ok => r.node.deliver_cache = SomeCache(inc.v.cache)
                   /\ ~inc.ok => ~r.ok
                   /\ (auth = "account" /\ ~handled.ok /\ sender # None) =>
                         /\ ~r.ok
                         /\ r.node.deliver_cache.some
                         /\ NonceOf(r.node, r.node.deliver_cache.cache, raw.sender)
                               = sender.nonce + 1
    /\ (resp.kind = "deliver_tx" /\ resp.log \in {"handler error", "deliver tx nonce error"})
          => resp.code = 1

\* A deliver_tx of bob's whose handler failed after a write, answered with
\* bob's nonce advanced in the execution cache.
C21_Witness ==
    /\ resp.kind = "deliver_tx"
    /\ resp.log = "handler error"
    /\ auth = "account"
    /\ node.deliver_cache.some
    /\ node.deliver_cache.cache[K1] = Add(App1Bytes("v2"))
    /\ node.store[Bob] = AccountCreate("pk_bob", TRUE)
    /\ node.deliver_cache.cache[Bob] = Add(AccountIncrementNonce(AccountCreate("pk_bob", TRUE)))

\* C22: in every state the node reaches, a check_tx addressed to a
\* registered module leaves in the admission cache what one nonce
\* advancement makes of the view validate was given, also when validate
\* rejected the transaction: after a check_tx that validate rejected, sent
\* by a sender that has an account, the sender's nonce in the admission
\* cache is one higher than before and the call has failed.
C22_RejectedCheckAdvancesNonce ==
    /\ (node.check_cache.some /\ ~node.panicked) =>
         \A raw \in S4Txs :
            LET view == Wrap(node.store, node.check_cache.cache)
                valid == validate(auth, raw, view)
                inc == increment_nonce(auth, raw, view)
                sender == StoreGet(ACCOUNT_STORE_NAME, "Account", raw.sender, view)
                r == run_tx(node, auth, TRUE, raw)
            IN  /\ inc.ok => (r.node.check_cache = SomeCache(inc.v.cache) /\ r.ok = valid.ok)
                /\ (auth = "account" /\ ~valid.ok /\ sender # None) =>
                      /\ ~r.ok
                      /\ r.node.check_cache.some
                      /\ NonceOf(r.node, r.node.check_cache.cache, raw.sender)
                            = sender.nonce + 1
    /\ (resp.kind = "check_tx" /\ resp.log \in {"bad signature", "nonce don't match"})
          => resp.code = 1

\* A check_tx of a transaction with a bad signature, rejected, after which
\* the admission cache holds bob's nonce advanced from the committed 0 to 1.
C22_Witness ==
    /\ resp.kind = "check_tx"
    /\ resp.code = 1
    /\ resp.log = "bad signature"
    /\ node.store[Bob] = AccountCreate("pk_bob", TRUE)
    /\ node.check_cache.some
    /\ node.check_cache.cache[Bob] = Add(AccountIncrementNonce(AccountCreate("pk_bob", TRUE)))

\* The database `store` overlaid with the changes of `cache`.
Overlay(store, cache) ==
    [k \in AllKeys |->
        IF cache[k] = NoEntry THEN store[k]
        ELSE IF cache[k] = Remove THEN Absent
        ELSE cache[k].v]

\* The writes every module's initialize stages on the view over the
\* execution cache of the node `n`.
GenesisWrites(n) ==
    init_modules(CHOOSE mods \in Orders(appmodules) : TRUE,
                 Wrap(n.store, n.deliver_cache.cache)).view.cache

\* C23 as stated: init_chain does not write to the database; the genesis
\* writes stay staged in the execution cache.
C23_InitChainStagesGenesis ==
    [][resp'.kind = "init_chain" =>
         /\ node'.store = node.store
         /\ node'.deliver_cache = SomeCache(GenesisWrites(node))]_vars

\* C23, amended: init_chain runs every module's initialize against a view
\* over the execution cache and merges the genesis writes into the database
\* at once: the database is the one before overlaid with these writes, the
\* execution cache is empty again, the admission cache and the chain state
\* (height 0, empty apphash) are untouched, and a check_tx after it reads
\* the genesis data as committed data.
C23_InitChainMergesGenesis ==
    [][resp'.kind = "init_chain" =>
         /\ node'.store = Overlay(node.store, GenesisWrites(node))
         /\ node'.store # node.store
         /\ node'.deliver_cache = SomeCache(EmptyCache)
         /\ node'.check_cache = node.check_cache
         /\ node'.chain = node.chain
         /\ info(node') = info(node)
         /\ StoreQuery(ACCOUNT_STORE_NAME, "Account", "bob", WrapSnapshot(node'.store))
               = AccountCreate("pk_bob", TRUE)]_vars

\* The node right after init_chain: the genesis account is in the database,
\* nothing is staged and no commit has been made.
C23_Witness ==
    /\ resp.kind = "init_chain"
    /\ node.store[Bob] = AccountCreate("pk_bob", TRUE)
    /\ node.deliver_cache = SomeCache(EmptyCache)
    /\ ~node.chain.some
    /\ commits.n = 0

\* The events the operations of a transaction's message dispatch when all
\* of them run: one per `emit`, in the order of the message, each with the
\* type module name, ".", event type.
EmittedBy(raw) ==
    IF raw.msg.m # "Script" THEN <<>>
    ELSE LET emits == SelectSeq(raw.msg.ops, LAMBDA o : o.op = "emit") IN
         [i \in 1..Len(emits) |->
             [type |-> raw.app \o "." \o emits[i].k,
              attributes |-> <<<<"sender", raw.sender>>>>]]

\* C24: a deliver_tx answered with code 0 returns exactly the events its
\* own handler dispatched, in the order it dispatched them, each typed
\* module name "." event type; a deliver_tx answered with another code
\* returns no events.
C24_EventsOfOwnHandler ==
    [][\A raw \in EventTxs :
         DeliverTx(raw) =>
            /\ resp'.code = 0 => resp'.events = EmittedBy(raw)
            /\ resp'.code # 0 => resp'.events = <<>>
            /\ (raw.app \in appmodules /\ node.deliver_cache.some
                  /\ ~handle_tx(raw.app, raw, Wrap(node.store, node.deliver_cache.cache)).ok)
                 => resp'.events = <<>>]_vars

\* A deliver_tx that returned the events b, a while the execution cache
\* holds the put of an earlier transaction of the block, which dispatched
\* a, b.
C24_Witness ==
    /\ resp.kind = "deliver_tx"
    /\ resp.code = 0
    /\ resp.events = <<Event("app1.b", <<<<"sender", "bob">>>>),
                       Event("app1.a", <<<<"sender", "bob">>>>)>>
    /\ node.deliver_cache.some
    /\ node.deliver_cache.cache[K1] = Add(App1Bytes("v1"))

\* C25: the code of every check_tx, deliver_tx and query response is 0 or
\* 1, and in every state the node reaches a call succeeds exactly when the
\* transaction decodes, its module is registered, validate (check_tx) or
\* handle_tx (deliver_tx) returns ok and the nonce advancement returns ok;
\* a query, when its path parses, its module is registered and
\* handle_query returns ok. A response has code 0 exactly when it has no
\* error log.
C25_CodeZeroIffSuccess ==
    /\ resp.kind \in {"check_tx", "deliver_tx", "query"} => resp.code \in {0, 1}
    /\ resp.kind \in {"check_tx", "deliver_tx"} => (resp.code = 0 <=> resp.log = "")
    /\ (resp.kind = "query" /\ resp.code = 1) => resp.value = None
    /\ (node.check_cache.some /\ ~node.panicked) =>
         \A raw \in RawTxs :
            run_tx(node, auth, TRUE, raw).ok <=>
               /\ raw # Garbage
               /\ raw.app \in appmodules
               /\ validate(auth, raw, Wrap(node.store, node.check_cache.cache)).ok
               /\ increment_nonce(auth, raw, Wrap(node.store, node.check_cache.cache)).ok
    /\ (node.deliver_cache.some /\ ~node.panicked) =>
         \A raw \in RawTxs :
            run_tx(node, auth, FALSE, raw).ok <=>
               /\ raw # Garbage
               /\ raw.app \in appmodules
               /\ LET handled == handle_tx(raw.app, raw,
                                           Wrap(node.store, node.deliver_cache.cache))
                  IN  handled.ok /\ increment_nonce(auth, raw, handled.view).ok
    /\ \A q \in Queries :
          query(node, q[1], q[2]).code \in {0, 1}
          /\ (query(node, q[1], q[2]).code = 0 <=>
                /\ parse_abci_query_path(q[1]) # None
                /\ \E a \in appmodules : parse_abci_query_path(q[1]).appname = <<a>>
                /\ handle_query(parse_abci_query_path(q[1]).appname[1],
                                parse_abci_query_path(q[1]).path, q[2],
                                WrapSnapshot(node.store)).ok)

\* A deliver_tx answered with code 1 although its handler returned ok and
\* wrote v1: the nonce advancement failed, the sender having no account.
C25_Witness ==
    /\ resp.kind = "deliver_tx"
    /\ resp.code = 1
    /\ resp.log = "deliver tx nonce error"
    /\ auth = "account"
    /\ ~node.deliver_cache.some

\* C28: with the default authenticator, in every state the node reaches, a
\* check_tx of a decodable transaction addressed to a registered module
\* succeeds and leaves the node, its admission cache included, as it is,
\* and a deliver_tx leaves in the execution cache exactly what the handler
\* left in its view.
C28_DefaultAuthenticatorIsNoOp ==
    (auth = "default" /\ ~node.panicked) =>
        /\ node.check_cache.some /\ node.deliver_cache.some
        /\ \A raw \in Txs :
              raw.app \in appmodules =>
                 /\ run_tx(node, auth, TRUE, raw).ok
                 /\ run_tx(node, auth, TRUE, raw).node = node
                 /\ run_tx(node, auth, FALSE, raw).node.deliver_cache =
                       SomeCache(handle_tx(raw.app, raw,
                                           Wrap(node.store, node.deliver_cache.cache)).view.cache)
                 /\ run_tx(node, auth, FALSE, raw).node.store = node.store
        /\ (resp.kind = "check_tx" /\ resp.log # "No registered AppModule found for name"
              /\ resp.log # "problem decoding the signed tx") => resp.code = 0
        /\ node.check_cache.cache = EmptyCache
        /\ \A a \in AccountIds : node.deliver_cache.cache[StoreKeyHash(ACCOUNT_STORE_NAME, a)]
                                    \in {NoEntry, Add(AccountCreate("pk_fake", FALSE))}

\* With the default authenticator, a check_tx answered with code 0 that
\* left the admission cache empty, while the execution cache holds a
\* handler's write.
C28_Witness ==
    /\ auth = "default"
    /\ resp.kind = "check_tx"
    /\ resp.code = 0
    /\ node.check_cache = SomeCache(EmptyCache)
    /\ node.deliver_cache.some
    /\ node.deliver_cache.cache[K1] = Add(App1Bytes("v2"))

\* C26: a transaction that was signed, encoded and decoded has the sender,
\* module name, payload and nonce it was created with and the signature it
\* was given, and verifies under the public key of the signing key; the
\* hash that is signed is the same with and without the signature.
C26_SignEncodeDecodeRoundTrip ==
    resp.kind = "tx_decoded" =>
        /\ resp.back.ok
        /\ resp.back.v = resp.signed
        /\ resp.back.v.sender = resp.tx.sender
        /\ resp.back.v.app = resp.tx.app
        /\ resp.back.v.msg = resp.tx.msg
        /\ resp.back.v.nonce = resp.tx.nonce
        /\ HashContents(resp.signed) = HashContents(resp.tx)
        /\ (resp.signer \in SecretKeys /\ resp.pk = PkOf(resp.signer)) => resp.verified

\* A transaction with a nonce of two bytes and fields of the largest
\* length, signed by carol, decoded and verified with carol's public key.
C26_Witness ==
    /\ resp.kind = "tx_decoded"
    /\ resp.signer = "sk_carol"
    /\ resp.pk = "pk_carol"
    /\ resp.verified
    /\ resp.back.v.nonce = 300
    /\ Len(resp.back.v.sender) = MaxFieldLen
    /\ Len(resp.back.v.signature) = SIGNATURE_LENGTH

\* C27: verify returns false for a transaction whose signature is empty
\* (an unsigned transaction) or has not the length of a signature, and for
\* a signed transaction checked against a public key that is not the
\* signer's.
C27_VerifyRejectsWithoutFailing ==
    resp.kind = "tx_decoded" =>
        /\ resp.verified \in BOOLEAN
        /\ resp.signer \in {"none", "short"} =>
              /\ ~resp.verified
              /\ \A pk \in PubKeys : ~verify_signature(resp.signed, pk)
        /\ (resp.signer \in SecretKeys /\ resp.pk # PkOf(resp.signer)) => ~resp.verified

\* An unsigned transaction, decoded with its empty signature and verified
\* with the sender's public key: false.
C27_Witness ==
    /\ resp.kind = "tx_decoded"
    /\ resp.signer = "none"
    /\ resp.back.ok
    /\ resp.back.v.signature = <<>>
    /\ resp.pk = "pk_bob"
    /\ ~resp.verified

\* C29: a commit of a block in which no deliver_tx changed the store (the
\* execution cache is empty) returns the apphash the previous commit
\* returned.
C29_EmptyBlockKeepsApphash ==
    [][( /\ resp'.kind = "commit"
         /\ commits.n >= 1
         /\ node.deliver_cache.some
         /\ node.deliver_cache.cache = EmptyCache )
       => resp'.data = commits.data]_vars

\* C30: the account a read of validate returns in check_tx is the
\* committed one, whatever earlier check_tx calls wrote to the admission
\* cache, so that validate decides as it would on the committed data.
C30_ValidateReadsCommittedOnly ==
    (node.check_cache.some /\ ~node.panicked) =>
        /\ \A a \in AccountIds :
              StoreGet(ACCOUNT_STORE_NAME, "Account", a,
                       Wrap(node.store, node.check_cache.cache))
                 = StoreQuery(ACCOUNT_STORE_NAME, "Account", a, WrapSnapshot(node.store))
        /\ \A raw \in S4Txs :
              validate(auth, raw, Wrap(node.store, node.check_cache.cache)).ok
                 = validate(auth, raw, WrapSnapshot(node.store)).ok

\* C31: commit_tx is all-or-nothing: the value v2, which only a batch whose
\* commit_tx returns an error writes, never reaches the committed state nor
\* a query's answer, by that call or by a later commit_tx.
C31_CommitTxAllOrNothing ==
    /\ node.store[K1] # App1Bytes("v2")
    /\ (resp.kind = "query" /\ resp.code = 0) => resp.value # App1Bytes("v2")


\* C32: after every call the admission cache and the execution cache are
\* present and no call has panicked.
C32_NodeStaysServiceable ==
    /\ ~node.panicked
    /\ node.check_cache.some
    /\ node.deliver_cache.some


\* C33: with the account authenticator, a deliver_tx of a transaction that
\* validate rejects against the execution view (bad signature, wrong nonce,
\* unknown sender) runs no handler: the call does not answer with code 0 and
\* stages no write besides the sender's account entry.
C33_DeliverExecutesOnlyAuthentic ==
    (auth = "account" /\ node.deliver_cache.some) =>
        \A raw \in TxSample \ {Garbage} :
            LET r == run_tx(node, auth, FALSE, raw)
                view == Wrap(node.store, node.deliver_cache.cache)
            IN  (raw.app \in appmodules /\ ~validate(auth, raw, view).ok) =>
                    /\ ~r.ok
                    /\ r.node.deliver_cache.some =>
                          \A k \in AllKeys \ {StoreKeyHash(ACCOUNT_STORE_NAME, raw.sender)} :
                              r.node.deliver_cache.cache[k] = node.deliver_cache.cache[k]


\* C34: over deliver_tx and commit steps the nonce stored in the committed
\* state for an account that exists never decreases.
C34_NonceNeverDecreases ==
    [][\A id \in AccountIds :
          LET k == StoreKeyHash(ACCOUNT_STORE_NAME, id) IN
          (node.store[k].type = "Account" /\ node'.store[k].type = "Account") =>
              node'.store[k].nonce >= node.store[k].nonce]_vars


\* C35: while a block is under way and its last write to k1 is a put, the
\* view the next deliver_tx is handed returns the value put, whatever the
\* committed state holds under k1, and a deliver_tx whose handler reads k1
\* finds it; a deliver_tx that did read k1 was handed the writes of the block.
C35_DeliverReadsEarlierWrites ==
    /\ (~writes.committed /\ writes.seq # <<>> /\ node.deliver_cache.some
          /\ writes.seq[Len(writes.seq)] # Remove) =>
          LET view == Wrap(node.store, node.deliver_cache.cache)
              r == run_tx(node, auth, FALSE, ReadRequire)
          IN  /\ StoreGet(APP1_STORE_NAME, "App1", "k1", view) = writes.seq[Len(writes.seq)].v
              /\ r.node.deliver_cache.some => r.ok
    /\ (resp.kind = "deliver_tx" /\ resp.code = 0 /\ resp.events # <<>>
          /\ node.deliver_cache.some) =>
          \/ node.deliver_cache.cache[K1] # NoEntry /\ node.deliver_cache.cache[K1] # Remove
          \/ node.store[K1] # Absent

\* The read was delivered with success in a block that put v1 under k1 while
\* the committed state holds v2.
C35_Witness ==
    /\ resp.kind = "deliver_tx"
    /\ resp.code = 0
    /\ resp.events # <<>>
    /\ ~writes.committed
    /\ writes.seq # <<>>
    /\ node.deliver_cache.some
    /\ node.deliver_cache.cache[K1] = Add(App1Bytes("v1"))
    /\ node.store[K1] = App1Bytes("v2")


\* C36: a node that is sent check_tx calls between the deliver_tx calls of
\* its blocks, and none of whose calls has panicked, holds the same committed store, the same execution cache and
\* returns the same apphash at commit as a peer that is sent the deliver_tx
\* and commit calls alone; and a check_tx changes neither the committed
\* store nor the execution cache, and stages nothing in the admission cache
\* besides the sender's account entry, so it has run no handler.
C36_CheckTxLeavesCommittedState ==
    /\ ~node.panicked =>
          /\ node.store = peer.store
          /\ node.deliver_cache = peer.deliver_cache
          /\ commit_data(node) = commit_data(peer)
          /\ commits.data = commits.peer_data
    /\ node.check_cache.some =>
          \A raw \in TxSample \cup {KitPutV1} :
              LET r == run_tx(node, auth, TRUE, raw) IN
              /\ r.node.store = node.store
              /\ r.node.deliver_cache = node.deliver_cache
              /\ (raw # Garbage /\ r.node.check_cache.some) =>
                    \A k \in AllKeys \ {StoreKeyHash(ACCOUNT_STORE_NAME, raw.sender)} :
                        r.node.check_cache.cache[k] = node.check_cache.cache[k]

\* A commit that merged writes of deliver_tx calls while the admission cache
\* of the node held entries of check_tx calls the peer never saw.
C36_Witness ==
    /\ resp.kind = "commit"
    /\ commits.merged > 0
    /\ commits.dropped
    /\ node.store[K1] # Absent
    /\ node.store = peer.store
    /\ commits.data = commits.peer_data


\* C37: through the view of the execution cache over the committed
\* snapshot, contains_key of k1 is true exactly when get of k1 returns a
\* value.
C37_ContainsKeyIffGet ==
    node.deliver_cache.some =>
        LET view == Wrap(node.store, node.deliver_cache.cache) IN
        StoreContainsKey(APP1_STORE_NAME, "k1", view)
            <=> (StoreGet(APP1_STORE_NAME, "App1", "k1", view) # None)


\* C38: in the patch-based Node the commit of a block all of whose
\* deliver_tx calls failed, and there was one, returns the apphash of the
\* previous commit and leaves every stored value as it was.
C38_FailedDeliverContributesNoPatch ==
    [][(resp'.kind = "commit" /\ commits.n >= 1
          /\ commits.delivered >= 1 /\ commits.failed = commits.delivered) =>
          /\ resp'.data = commits.data
          /\ node'.db = node.db
          /\ node'.proof_table = node.proof_table]_vars

\* The second or a later commit, of a block whose deliver_tx calls failed,
\* bob's being left without funds by an earlier registration.
C38_Witness ==
    /\ resp.kind = "commit"
    /\ commits.n >= 2
    /\ commits.last_delivered >= 1
    /\ commits.last_failed = commits.last_delivered
    /\ node.db[<<ACCOUNTS_STORE, "bob">>] = WalletAccount("bob", 0)
    /\ node.db[<<A_TO_D_STORE, "bob">>] = DnaHash("d2")


\* C39: no commit of the write batch panics, whatever put, get and remove
\* left in the cache; a commit empties the cache, and a key whose entry was
\* only loaded from the database by a get holds after the commit what it
\* held before.
C39_CommitCompletes ==
    /\ ~node.panicked
    /\ resp.kind = "commit" =>
          /\ state_size(node) = 0
          /\ \A k \in StateKeys :
                (peer.cache[k] # NoEntry /\ peer.cache[k].op = "Put" /\ ~peer.cache[k].dirty) =>
                    node.db[k] = peer.db[k]
====
